---- MODULE Spec2Model ----
(***************************************************************************)
(* argv-flags: the schema-driven flag parser of src/src/index.ts.          *)
(*                                                                         *)
(* A JavaScript string is a sequence of one-character strings, so that     *)
(* startsWith, slice, indexOf and toLowerCase are computed and not         *)
(* assumed.  A JavaScript value is a record tagged by its typeof, and an   *)
(* array is a reference into a heap, so that two arrays with equal         *)
(* elements are still two objects.                                         *)
(***************************************************************************)
EXTENDS Integers, Sequences, FiniteSets, TLC

(***************************************************************************)
(* Bounds of the model.                                                    *)
(***************************************************************************)
\* the longest argv a caller passes
MaxArgv == 3

(***************************************************************************)
(* JavaScript values.                                                      *)
(***************************************************************************)
Undef == [t |-> "undefined"]
Null == [t |-> "null"]
Str(chars) == [t |-> "string", s |-> chars]
Bool(b) == [t |-> "boolean", b |-> b]
\* a finite number
Num(n) == [t |-> "number", finite |-> TRUE, n |-> n]
\* NaN, Infinity and -Infinity: a number for typeof, not for Number.isFinite
NotFinite == [t |-> "number", finite |-> FALSE]
\* the array object at a heap address
ArrRef(r) == [t |-> "array", ref |-> r]
\* an object that is not an array and not null
PlainObject == [t |-> "object"]

IsString(v) == v.t = "string"
IsArray(v) == v.t = "array"

(***************************************************************************)
(* Strings.                                                                *)
(***************************************************************************)
StartsWith(s, prefix) ==
    /\ Len(s) >= Len(prefix)
    /\ SubSeq(s, 1, Len(prefix)) = prefix

\* String.prototype.slice(from) with 0 <= from
SliceFrom(s, from) == SubSeq(s, from + 1, Len(s))

\* String.prototype.slice(0, to)
SliceTo(s, to) == SubSeq(s, 1, to)

\* String.prototype.indexOf of a one-character string: 0-based, -1 when absent
IndexOf(s, ch) ==
    IF \E p \in 1..Len(s) : s[p] = ch
    THEN (CHOOSE p \in 1..Len(s) : s[p] = ch /\ \A q \in 1..(p - 1) : s[q] # ch) - 1
    ELSE -1

UpperToLower ==
    [A |-> "a", B |-> "b", C |-> "c", D |-> "d", E |-> "e", F |-> "f", G |-> "g",
     H |-> "h", I |-> "i", J |-> "j", K |-> "k", L |-> "l", M |-> "m", N |-> "n",
     O |-> "o", P |-> "p", Q |-> "q", R |-> "r", S |-> "s", T |-> "t", U |-> "u",
     V |-> "v", W |-> "w", X |-> "x", Y |-> "y", Z |-> "z"]

\* String.prototype.toLowerCase on the ASCII letters
ToLowerCase(s) ==
    [p \in 1..Len(s) |-> IF s[p] \in DOMAIN UpperToLower THEN UpperToLower[s[p]] ELSE s[p]]

Digits == {"0", "1", "2", "3", "4", "5", "6", "7", "8", "9"}

DigitValue ==
    [c \in Digits |->
        CASE c = "0" -> 0 [] c = "1" -> 1 [] c = "2" -> 2 [] c = "3" -> 3 [] c = "4" -> 4
          [] c = "5" -> 5 [] c = "6" -> 6 [] c = "7" -> 7 [] c = "8" -> 8 [] c = "9" -> 9]

RECURSIVE DigitsToNat(_)
DigitsToNat(s) ==
    IF s = <<>> THEN 0 ELSE 10 * DigitsToNat(SubSeq(s, 1, Len(s) - 1)) + DigitValue[s[Len(s)]]

IsDigits(s) == Len(s) > 0 /\ \A p \in 1..Len(s) : s[p] \in Digits

\* Number(value) of a string.  The strings of the model are written with letters,
\* digits, '-', '+' and '=', so the numeric literals among them are the signed
\* decimal integers; the empty string converts to 0; every other string of the
\* model ("abc", "NaN", "Infinity", "--n", ...) converts to NaN or to an infinity.
ToNumber(s) ==
    IF s = <<>> THEN Num(0)
    ELSE IF IsDigits(s) THEN Num(DigitsToNat(s))
    ELSE IF s[1] = "-" /\ IsDigits(Tail(s)) THEN Num(0 - DigitsToNat(Tail(s)))
    ELSE IF s[1] = "+" /\ IsDigits(Tail(s)) THEN Num(DigitsToNat(Tail(s)))
    ELSE NotFinite

(***************************************************************************)
(* The pure helpers of src/src/index.ts.                                   *)
(***************************************************************************)
BOOLEAN_TRUE ==
    { <<"t", "r", "u", "e">>, <<"1">>, <<"y", "e", "s">>, <<"y">>, <<"o", "n">> }

BOOLEAN_FALSE ==
    { <<"f", "a", "l", "s", "e">>, <<"0">>, <<"n", "o">>, <<"n">>, <<"o", "f", "f">> }

\* mutant of isFlagToken: a token of two characters is not flag-shaped
isFlagTokenLongerThanTwo(value) ==
    /\ IsString(value)
    /\ StartsWith(value.s, <<"-">>)
    /\ Len(value.s) > 2

isFlagToken(value) ==
    /\ IsString(value)
    /\ StartsWith(value.s, <<"-">>)
    /\ Len(value.s) > 1

\* mutant of normalizeBoolean: the word is compared as written, not lower-cased
normalizeBooleanCaseSensitive(value) ==
    IF ~IsString(value) THEN Undef
    ELSE IF value.s \in BOOLEAN_TRUE THEN Bool(TRUE)
    ELSE IF value.s \in BOOLEAN_FALSE THEN Bool(FALSE)
    ELSE Undef

\* a boolean for a boolean word, undefined otherwise
normalizeBoolean(value) ==
    IF ~IsString(value) THEN Undef
    ELSE IF ToLowerCase(value.s) \in BOOLEAN_TRUE THEN Bool(TRUE)
    ELSE IF ToLowerCase(value.s) \in BOOLEAN_FALSE THEN Bool(FALSE)
    ELSE Undef

\* mutant of isNumericValue: the empty string is not set apart
isNumericValueAllowsEmpty(value) ==
    IF ~IsString(value) THEN FALSE
    ELSE ToNumber(value.s).finite

isNumericValue(value) ==
    IF ~IsString(value) \/ Len(value.s) = 0 THEN FALSE
    ELSE ToNumber(value.s).finite

\* { flag, value? }: value is undefined when the token has no '=' after its
\* first character
splitInlineValue(token) ==
    LET eqIndex == IndexOf(token, "=") IN
    IF eqIndex <= 0
    THEN [flag |-> token, value |-> Undef]
    ELSE [flag |-> SliceTo(token, eqIndex),
          value |-> Str(SliceFrom(token, eqIndex + 1))]

\* every element of the array object is a string
isStringArray(value, h) ==
    /\ IsArray(value)
    /\ \A p \in 1..Len(h[value.ref]) : IsString(h[value.ref][p])

(***************************************************************************)
(* Messages.  A template string is the sequence of its parts: literal      *)
(* text, an interpolated schema key, an interpolated string of characters, *)
(* or the String() of some other value.                                    *)
(***************************************************************************)
Lit(text) == [lit |-> text]
KeyPart(key) == [key |-> key]
StrPart(chars) == [str |-> chars]
ValPart(v) == [val |-> v]

\* String(flag) inside a template
StringOf(v) == IF IsString(v) THEN StrPart(v.s) ELSE ValPart(v)

TypeError(message) == [name |-> "TypeError", message |-> message]

Threw(error) == [threw |-> TRUE, error |-> error]

(***************************************************************************)
(* A schema is any JavaScript value.  An object is                         *)
(*   [t |-> "object", entries |-> <<[key |-> k, spec |-> v], ...>>]        *)
(* with its own enumerable keys in Object.keys order, and a FlagSpec       *)
(* object is                                                               *)
(*   [t |-> "object", type, flags, required, default, allowEmpty, allowNo] *)
(* where a property that is not set reads as undefined.                    *)
(***************************************************************************)
IsObjectNotArray(v) == v.t = "object"

FlagTypes == { <<"s", "t", "r", "i", "n", "g">>, <<"b", "o", "o", "l", "e", "a", "n">>,
               <<"n", "u", "m", "b", "e", "r">>, <<"a", "r", "r", "a", "y">> }

TString == Str(<<"s", "t", "r", "i", "n", "g">>)
TBoolean == Str(<<"b", "o", "o", "l", "e", "a", "n">>)
TNumber == Str(<<"n", "u", "m", "b", "e", "r">>)
TArray == Str(<<"a", "r", "r", "a", "y">>)

\* mutant of normalizeDefaultValue: a default is checked by its typeof only
normalizeDefaultValueTypeofOnly(key, value, type, h) ==
    IF value = Undef THEN [threw |-> FALSE, value |-> Undef]
    ELSE IF (type = TString /\ ~IsString(value))
            \/ (type = TBoolean /\ value.t # "boolean")
            \/ (type = TNumber /\ value.t # "number")
            \/ (type = TArray /\ ~IsArray(value))
    THEN Threw(TypeError(<<Lit("Schema entry \""), KeyPart(key), Lit("\" has a default of the wrong type.")>>))
    ELSE [threw |-> FALSE, value |-> value]

\* the default as given, or a TypeError when it does not match the type
normalizeDefaultValue(key, value, type, h) ==
    IF value = Undef THEN [threw |-> FALSE, value |-> Undef]
    ELSE IF type = TString THEN
        IF ~IsString(value)
        THEN Threw(TypeError(<<Lit("Schema entry \""), KeyPart(key), Lit("\" default must be a string.")>>))
        ELSE [threw |-> FALSE, value |-> value]
    ELSE IF type = TBoolean THEN
        IF value.t # "boolean"
        THEN Threw(TypeError(<<Lit("Schema entry \""), KeyPart(key), Lit("\" default must be a boolean.")>>))
        ELSE [threw |-> FALSE, value |-> value]
    ELSE IF type = TNumber THEN
        IF value.t # "number" \/ ~value.finite
        THEN Threw(TypeError(<<Lit("Schema entry \""), KeyPart(key), Lit("\" default must be a finite number.")>>))
        ELSE [threw |-> FALSE, value |-> value]
    ELSE IF type = TArray THEN
        IF ~isStringArray(value, h)
        THEN Threw(TypeError(<<Lit("Schema entry \""), KeyPart(key), Lit("\" default must be a string array.")>>))
        ELSE [threw |-> FALSE, value |-> value]
    ELSE Threw(TypeError(<<Lit("Schema entry \""), KeyPart(key), Lit("\" has invalid type \""),
                           StringOf(type), Lit("\".")>>))

\* Map.prototype.get on flagToKey: the key, or undefined
MapGet(map, flag) == IF flag \in DOMAIN map THEN map[flag] ELSE "undefined"

MapHas(map, flag) == flag \in DOMAIN map

MapSet(map, flag, key) == [f \in DOMAIN map \cup {flag} |-> IF f = flag THEN key ELSE map[f]]

EmptyMap == [f \in {} |-> "undefined"]

\* the loop over one entry's flags (lines 182-192), from position p on
RECURSIVE validateFlags(_, _, _, _, _)
validateFlags(key, flagsInput, p, flagToKey, flags) ==
    IF p > Len(flagsInput) THEN [threw |-> FALSE, flagToKey |-> flagToKey, flags |-> flags]
    ELSE LET flag == flagsInput[p] IN
        IF ~IsString(flag) \/ Len(flag.s) < 2 \/ ~StartsWith(flag.s, <<"-">>)
        THEN Threw(TypeError(<<Lit("Schema entry \""), KeyPart(key), Lit("\" has invalid flag \""),
                               StringOf(flag), Lit("\".")>>))
        ELSE IF MapHas(flagToKey, flag.s)
        THEN Threw(TypeError(<<Lit("Flag \""), StrPart(flag.s), Lit("\" is already assigned to \""),
                               KeyPart(MapGet(flagToKey, flag.s)), Lit("\".")>>))
        ELSE validateFlags(key, flagsInput, p + 1, MapSet(flagToKey, flag.s, key),
                           Append(flags, flag.s))

\* flags.find((flag) => flag.startsWith('--'))
FindLongFlag(flags) ==
    IF \E p \in 1..Len(flags) : StartsWith(flags[p], <<"-", "-">>)
    THEN Str(flags[CHOOSE p \in 1..Len(flags) :
                /\ StartsWith(flags[p], <<"-", "-">>)
                /\ \A q \in 1..(p - 1) : ~StartsWith(flags[q], <<"-", "-">>)])
    ELSE Undef

\* the NormalizedSpec of one entry (lines 194-208); a property that the spread
\* leaves out reads as undefined
NormalizedSpec(type, flags, specRecord, defaultValue) ==
    [type |-> type,
     flags |-> flags,
     required |-> IF specRecord.required = Bool(TRUE) THEN Bool(TRUE) ELSE Undef,
     allowEmpty |-> IF specRecord.allowEmpty = Bool(TRUE) THEN Bool(TRUE) ELSE Undef,
     allowNo |-> IF specRecord.allowNo = Bool(FALSE) THEN Bool(FALSE) ELSE Undef,
     default |-> defaultValue,
     longFlag |-> FindLongFlag(flags)]

\* the loop over Object.keys(schema) (lines 167-210), from entry p on
RECURSIVE validateEntries(_, _, _, _, _)
validateEntries(entries, p, flagToKey, normalized, h) ==
    IF p > Len(entries)
    THEN [threw |-> FALSE, flagToKey |-> flagToKey, normalized |-> normalized]
    ELSE LET key == entries[p].key
             rawSpec == entries[p].spec
         IN
        IF ~IsObjectNotArray(rawSpec)
        THEN Threw(TypeError(<<Lit("Schema entry for \""), KeyPart(key), Lit("\" must be an object.")>>))
        ELSE IF ~(IsString(rawSpec.type) /\ rawSpec.type.s \in FlagTypes)
        THEN Threw(TypeError(<<Lit("Schema entry \""), KeyPart(key), Lit("\" has invalid type.")>>))
        ELSE IF ~IsArray(rawSpec.flags) \/ Len(h[rawSpec.flags.ref]) = 0
        THEN Threw(TypeError(<<Lit("Schema entry \""), KeyPart(key),
                               Lit("\" must define at least one flag.")>>))
        ELSE LET fl == validateFlags(key, h[rawSpec.flags.ref], 1, flagToKey, <<>>) IN
            IF fl.threw THEN fl
            ELSE LET dv == normalizeDefaultValue(key, rawSpec.default, rawSpec.type, h) IN
                IF dv.threw THEN dv
                ELSE validateEntries(entries, p + 1, fl.flagToKey,
                        Append(normalized,
                               [key |-> key,
                                spec |-> NormalizedSpec(rawSpec.type, fl.flags, rawSpec, dv.value)]),
                        h)

\* { flagToKey, normalized }, or the TypeError thrown
validateSchema(schema, h) ==
    IF ~IsObjectNotArray(schema)
    THEN Threw(TypeError(<<Lit("Schema must be an object.")>>))
    ELSE validateEntries(schema.entries, 1, EmptyMap, <<>>, h)

\* Map.prototype.get on normalized: the spec of a key that validateSchema set
NormalizedGet(normalized, key) ==
    normalized[CHOOSE p \in 1..Len(normalized) : normalized[p].key = key].spec

(***************************************************************************)
(* The schemas, heaps and token vocabularies the calls are made with.      *)
(***************************************************************************)
DoubleDash == <<"-", "-">>
tName == <<"-", "-", "n", "a", "m", "e">>
tNameEq == <<"-", "-", "n", "a", "m", "e", "=">>
tVerbose == <<"-", "-", "v", "e", "r", "b", "o", "s", "e">>
tNoVerbose == <<"-", "-", "n", "o", "-", "v", "e", "r", "b", "o", "s", "e">>
tBogus == <<"-", "-", "b", "o", "g", "u", "s">>
tItems == <<"-", "-", "i", "t", "e", "m", "s">>
tItemsEqA == <<"-", "-", "i", "t", "e", "m", "s", "=", "a">>
tTags == <<"-", "-", "t", "a", "g", "s">>
tCount == <<"-", "-", "c", "o", "u", "n", "t">>
tCountEqNaN == <<"-", "-", "c", "o", "u", "n", "t", "=", "N", "a", "N">>
tMinus3 == <<"-", "3">>
tFlag == <<"-", "-", "f", "l", "a", "g">>
tNoFlag == <<"-", "-", "n", "o", "-", "f", "l", "a", "g">>
tFlagEqBanana == <<"-", "-", "f", "l", "a", "g", "=", "b", "a", "n", "a", "n", "a">>
tQuiet == <<"-", "-", "q", "u", "i", "e", "t">>
tNoQuiet == <<"-", "-", "n", "o", "-", "q", "u", "i", "e", "t">>
tDup == <<"-", "-", "d", "u", "p">>
tEmpty == <<>>
tX == <<"x">>
tA == <<"a">>
tB == <<"b">>
tBase == <<"b", "a", "s", "e">>
t5 == <<"5">>
tAbc == <<"a", "b", "c">>
tYes == <<"Y", "e", "s">>
tOff == <<"o", "f", "f">>
tDash == <<"-">>
tNode == <<"n", "o", "d", "e">>
tScript == <<"s", "c", "r", "i", "p", "t">>
tMutated == <<"m", "u", "t", "a", "t", "e", "d">>
tNoName == <<"-", "-", "n", "o", "-", "n", "a", "m", "e">>
tNoBogusEqX == <<"-", "-", "n", "o", "-", "b", "o", "g", "u", "s", "=", "x">>
tFlagEq == <<"-", "-", "f", "l", "a", "g", "=">>
tF == <<"-", "f">>
tNameEqX == <<"-", "-", "n", "a", "m", "e", "=", "x">>
tTitle == <<"-", "-", "t", "i", "t", "l", "e">>
tTitleEq == <<"-", "-", "t", "i", "t", "l", "e", "=">>
tCountEq == <<"-", "-", "c", "o", "u", "n", "t", "=">>
tItemsEq == <<"-", "-", "i", "t", "e", "m", "s", "=">>

\* a FlagSpec object literal { type, flags }; the other properties are not set
FlagSpec(type, flags) ==
    [t |-> "object", type |-> type, flags |-> flags, required |-> Undef,
     default |-> Undef, allowEmpty |-> Undef, allowNo |-> Undef]

SchemaObject(entries) == [t |-> "object", entries |-> entries]

Entry(key, spec) == [key |-> key, spec |-> spec]

\* process.argv of the runtime the calls are made in
ProcessArgv == <<Str(tNode), Str(tScript), Str(tName), Str(tX)>>

\* { name: string, required; verbose: boolean, default false }
ScnNameVerbose ==
    [schema |-> SchemaObject(<<
        Entry("name", [FlagSpec(TString, ArrRef(1)) EXCEPT !.required = Bool(TRUE)]),
        Entry("verbose", [FlagSpec(TBoolean, ArrRef(2)) EXCEPT !.default = Bool(FALSE)])>>),
     heap |-> << <<Str(tName)>>, <<Str(tVerbose)>> >>,
     tokens |-> {tName, tX, tVerbose, tNoVerbose, DoubleDash, tBogus}]

\* { items: array, default ['base']; tags: array, allowEmpty }
ScnArrays ==
    [schema |-> SchemaObject(<<
        Entry("items", [FlagSpec(TArray, ArrRef(1)) EXCEPT !.default = ArrRef(2)]),
        Entry("tags", [FlagSpec(TArray, ArrRef(3)) EXCEPT !.allowEmpty = Bool(TRUE)])>>),
     heap |-> << <<Str(tItems)>>, <<Str(tBase)>>, <<Str(tTags)>> >>,
     tokens |-> {tItems, tItemsEqA, tTags, tA, tB, DoubleDash}]

\* { count: number, default 5; three: boolean with the flag -3 }
ScnNumber ==
    [schema |-> SchemaObject(<<
        Entry("count", [FlagSpec(TNumber, ArrRef(1)) EXCEPT !.default = Num(5)]),
        Entry("three", FlagSpec(TBoolean, ArrRef(2)))>>),
     heap |-> << <<Str(tCount)>>, <<Str(tMinus3)>> >>,
     tokens |-> {tCount, tCountEqNaN, tCountEq, tMinus3, t5, tAbc, tDash}]

\* { flag: boolean; quiet: boolean, allowNo false, default true; name: string, allowEmpty }
ScnBooleans ==
    [schema |-> SchemaObject(<<
        Entry("flag", FlagSpec(TBoolean, ArrRef(1))),
        Entry("quiet", [FlagSpec(TBoolean, ArrRef(2)) EXCEPT !.allowNo = Bool(FALSE),
                                                             !.default = Bool(TRUE)]),
        Entry("name", [FlagSpec(TString, ArrRef(3)) EXCEPT !.allowEmpty = Bool(TRUE)])>>),
     heap |-> << <<Str(tFlag)>>, <<Str(tQuiet)>>, <<Str(tName), Str(tNoFlag)>> >>,
     tokens |-> {tFlag, tNoFlag, tFlagEqBanana, tNoQuiet, tYes, tOff}]

\* { name: string, required; flag: boolean with the flags -f and --flag, required,
\*   default false }
ScnRequired ==
    [schema |-> SchemaObject(<<
        Entry("name", [FlagSpec(TString, ArrRef(1)) EXCEPT !.required = Bool(TRUE)]),
        Entry("flag", [FlagSpec(TBoolean, ArrRef(2)) EXCEPT !.required = Bool(TRUE),
                                                            !.default = Bool(FALSE)])>>),
     heap |-> << <<Str(tName)>>, <<Str(tF), Str(tFlag)>> >>,
     tokens |-> {tName, tNoName, tNoBogusEqX, tFlagEq}]

\* { name: string; title: string, allowEmpty }, called with values and with
\* tokens that are no values
ScnStrings ==
    [schema |-> SchemaObject(<<
        Entry("name", FlagSpec(TString, ArrRef(1))),
        Entry("title", [FlagSpec(TString, ArrRef(2)) EXCEPT !.allowEmpty = Bool(TRUE)])>>),
     heap |-> << <<Str(tName)>>, <<Str(tTitle)>> >>,
     tokens |-> {tName, tNameEqX, tX, tMinus3}]

\* the same schema, called with empty values
ScnEmptyStrings ==
    [schema |-> ScnStrings.schema,
     heap |-> ScnStrings.heap,
     tokens |-> {tName, tNameEq, tTitle, tTitleEq, tEmpty}]

\* { items: array, allowEmpty, default ['base'] }
ScnArrayEmpty ==
    [schema |-> SchemaObject(<<
        Entry("items", [FlagSpec(TArray, ArrRef(1)) EXCEPT !.allowEmpty = Bool(TRUE),
                                                           !.default = ArrRef(2)])>>),
     heap |-> << <<Str(tItems)>>, <<Str(tBase)>> >>,
     tokens |-> {tItems, tItemsEq, tA}]

\* { name: string }, in a runtime where globalThis.process is undefined and
\* Deno.args is ['--name', 'x'] (test/claims.test.js, lines 139-171)
ScnDeno ==
    [schema |-> SchemaObject(<<Entry("name", FlagSpec(TString, ArrRef(1)))>>),
     heap |-> << <<Str(tName)>> >>,
     tokens |-> {tName, tX},
     process |-> Undef,
     Deno |-> [args |-> <<Str(tName), Str(tX)>>]]

\* the schemas of test/claims.test.js, "invalid schema definitions throw early",
\* and their neighbours; each is called with the same two tokens
SmallTokens == {tName, tX}

Malformed(s, h) == [schema |-> s, heap |-> h, tokens |-> SmallTokens]

OneEntry(spec, h) == Malformed(SchemaObject(<<Entry("name", spec)>>), h)

ScnNull == Malformed(Null, <<>>)
ScnSchemaIsArray == Malformed(ArrRef(1), << <<>> >>)
ScnSchemaIsString == Malformed(Str(tName), <<>>)
ScnEntryNull == OneEntry(Null, <<>>)
ScnEntryIsArray == OneEntry(ArrRef(1), << <<Str(tName)>> >>)
ScnTypeUnknown == OneEntry(FlagSpec(Str(<<"d", "a", "t", "e">>), ArrRef(1)), << <<Str(tName)>> >>)
ScnTypeMissing == OneEntry(FlagSpec(Undef, ArrRef(1)), << <<Str(tName)>> >>)
ScnNoFlags == OneEntry(FlagSpec(TString, ArrRef(1)), << <<>> >>)
ScnFlagsNotArray == OneEntry(FlagSpec(TString, Str(tName)), <<>>)
ScnFlagNoDash == OneEntry(FlagSpec(TString, ArrRef(1)), << <<Str(tName), Str(tX)>> >>)
ScnFlagTooShort == OneEntry(FlagSpec(TBoolean, ArrRef(1)), << <<Str(tDash)>> >>)
ScnFlagNotString == OneEntry(FlagSpec(TString, ArrRef(1)), << <<Num(5)>> >>)
ScnStringDefaultNumber ==
    OneEntry([FlagSpec(TString, ArrRef(1)) EXCEPT !.default = Num(5)], << <<Str(tName)>> >>)
ScnBooleanDefaultString ==
    OneEntry([FlagSpec(TBoolean, ArrRef(1)) EXCEPT !.default = Str(tYes)], << <<Str(tName)>> >>)
ScnNumberDefaultString ==
    OneEntry([FlagSpec(TNumber, ArrRef(1)) EXCEPT !.default = Str(t5)], << <<Str(tName)>> >>)
ScnNumberDefaultNaN ==
    OneEntry([FlagSpec(TNumber, ArrRef(1)) EXCEPT !.default = NotFinite], << <<Str(tName)>> >>)
ScnArrayDefaultMixed ==
    OneEntry([FlagSpec(TArray, ArrRef(1)) EXCEPT !.default = ArrRef(2)],
             << <<Str(tName)>>, <<Str(tA), Num(5)>> >>)
ScnArrayDefaultString ==
    OneEntry([FlagSpec(TArray, ArrRef(1)) EXCEPT !.default = Str(tA)], << <<Str(tName)>> >>)
ScnStringDefaultNull ==
    OneEntry([FlagSpec(TString, ArrRef(1)) EXCEPT !.default = Null], << <<Str(tName)>> >>)

\* { one: string --dup; two: string --dup }
ScnDuplicateFlag ==
    Malformed(SchemaObject(<<Entry("one", FlagSpec(TString, ArrRef(1))),
                             Entry("two", FlagSpec(TString, ArrRef(2)))>>),
              << <<Str(tDup)>>, <<Str(tName), Str(tDup)>> >>)

\* a well-formed entry followed by a malformed one
ScnSecondEntryBad ==
    Malformed(SchemaObject(<<Entry("name", FlagSpec(TString, ArrRef(1))),
                             Entry("verbose", FlagSpec(TBoolean, ArrRef(2)))>>),
              << <<Str(tName)>>, <<Str(tX)>> >>)

\* { name: string, allowNo: true }
ScnAllowNoOnString ==
    OneEntry([FlagSpec(TString, ArrRef(1)) EXCEPT !.allowNo = Bool(TRUE)], << <<Str(tName)>> >>)
\* { verbose: boolean, allowEmpty: false }
ScnAllowEmptyOnBoolean ==
    Malformed(SchemaObject(<<Entry("verbose",
                  [FlagSpec(TBoolean, ArrRef(1)) EXCEPT !.allowEmpty = Bool(FALSE)])>>),
              << <<Str(tName)>> >>)
\* { name: string, required: 'yes' }
ScnRequiredNotBoolean ==
    OneEntry([FlagSpec(TString, ArrRef(1)) EXCEPT !.required = Str(tYes)], << <<Str(tName)>> >>)

Scenarios ==
    <<ScnNameVerbose, ScnArrays, ScnNumber, ScnBooleans,
      ScnNull, ScnSchemaIsArray, ScnSchemaIsString, ScnEntryNull, ScnEntryIsArray,
      ScnTypeUnknown, ScnTypeMissing, ScnNoFlags, ScnFlagsNotArray, ScnFlagNoDash,
      ScnFlagTooShort, ScnFlagNotString, ScnStringDefaultNumber, ScnBooleanDefaultString,
      ScnNumberDefaultString, ScnNumberDefaultNaN, ScnArrayDefaultMixed,
      ScnArrayDefaultString, ScnStringDefaultNull, ScnDuplicateFlag, ScnSecondEntryBad,
      ScnAllowNoOnString, ScnAllowEmptyOnBoolean, ScnRequiredNotBoolean,
      ScnRequired, ScnStrings, ScnEmptyStrings, ScnArrayEmpty, ScnDeno>>

\* the sequences of at most n elements of S
RECURSIVE SeqsUpTo(_, _)
SeqsUpTo(S, n) ==
    IF n = 0 THEN {<<>>}
    ELSE LET shorter == SeqsUpTo(S, n - 1)
         IN shorter \cup {Append(q, x) : q \in {r \in shorter : Len(r) = n - 1}, x \in S}

(***************************************************************************)
(* State.                                                                  *)
(***************************************************************************)
VARIABLES
    scn,               \* which of Scenarios the caller works with
    schema,            \* the caller's schema object
    heap,              \* the array objects: heap[r] is the elements of array r
    options,           \* the options object of the call
    pc,                \* "idle", "scan", "required", "returned" or "thrown"
    flagToKey,         \* parseArgs local: flag token -> key
    normalized,        \* parseArgs local: <<[key, spec]>> in Map order
    argv,              \* parseArgs local: its own copy of the tokens
    allowUnknown,      \* parseArgs local
    stopAtDoubleDash,  \* parseArgs local
    values,            \* parseArgs local, then result.values
    present,           \* parseArgs local, then result.present
    issues,            \* parseArgs local, then result.issues
    unknown,           \* parseArgs local, then result.unknown
    rest,              \* parseArgs local, then result.rest
    i,                 \* parseArgs local: the scan cursor, 0-based
    ok,                \* result.ok
    error,             \* the error thrown, when pc = "thrown"
    visited,           \* history: the cursor positions the loop took a token at
    argvAtCall,        \* history: the elements of options.argv when first passed
    first,             \* history: the outcome of the first call
    mutated,           \* history: the caller has written into the result
    again,             \* history: the call is not the first one with this schema
    mutatedBefore,     \* history: the caller has written into an earlier result
    json               \* the caller's toJsonResult(result), NoJson before it is made

callerVars == <<scn, schema, options, argvAtCall>>
localVars == <<flagToKey, normalized, argv, allowUnknown, stopAtDoubleDash>>
resultVars == <<values, present, issues, unknown, rest, ok, error>>
vars == <<scn, schema, heap, options, pc, flagToKey, normalized, argv,
          allowUnknown, stopAtDoubleDash, values, present, issues, unknown, rest, i,
          ok, error, visited, argvAtCall, first, mutated, again, mutatedBefore, json>>

NoError == [name |-> "none"]
NoOptions == [argv |-> Undef, allowUnknown |-> Undef, stopAtDoubleDash |-> Undef]
NoOutcome == [kind |-> "none"]
EmptyObject == [k \in {} |-> Undef]
NoJson == [kind |-> "none"]

Init ==
    /\ scn \in 1..Len(Scenarios)
    /\ schema = Scenarios[scn].schema
    /\ heap = Scenarios[scn].heap
    /\ options = NoOptions
    /\ pc = "idle"
    /\ flagToKey = EmptyMap
    /\ normalized = <<>>
    /\ argv = <<>>
    /\ allowUnknown = FALSE
    /\ stopAtDoubleDash = FALSE
    /\ values = EmptyObject
    /\ present = EmptyObject
    /\ issues = <<>>
    /\ unknown = <<>>
    /\ rest = <<>>
    /\ i = 0
    /\ ok = FALSE
    /\ error = NoError
    /\ visited = {}
    /\ argvAtCall = <<>>
    /\ first = NoOutcome
    /\ mutated = FALSE
    /\ again = FALSE
    /\ mutatedBefore = FALSE
    /\ json = NoJson

(***************************************************************************)
(* parseArgs, lines 217-232: validation, the copy of argv, the options     *)
(* and the initial values and present.                                     *)
(***************************************************************************)
\* obj[key] = v on a plain object: sets the property, creating it when missing
Put(obj, key, v) == [k \in DOMAIN obj \cup {key} |-> IF k = key THEN v ELSE obj[k]]

\* obj[key]: undefined when the property is missing
Get(obj, key) == IF key \in DOMAIN obj THEN obj[key] ELSE Undef

\* a new array object with the given elements
Alloc(h, elems) == [heap |-> Append(h, elems), value |-> ArrRef(Len(h) + 1)]

\* mutant of cloneDefault: the default array itself, not a copy
cloneDefaultShared(value, type, h) == [heap |-> h, value |-> value]

\* value.slice() for an array default, the value itself otherwise
cloneDefault(value, type, h) ==
    IF type = TArray /\ IsArray(value)
    THEN Alloc(h, h[value.ref])
    ELSE [heap |-> h, value |-> value]

\* mutant of InitEntries: a key with a default starts out present
RECURSIVE InitEntriesDefaultPresent(_, _, _, _, _)
InitEntriesDefaultPresent(norm, p, vals, pres, h) ==
    IF p > Len(norm) THEN [values |-> vals, present |-> pres, heap |-> h]
    ELSE LET c == cloneDefault(norm[p].spec.default, norm[p].spec.type, h)
         IN InitEntriesDefaultPresent(norm, p + 1, Put(vals, norm[p].key, c.value),
                        Put(pres, norm[p].key, norm[p].spec.default # Undef), c.heap)

\* mutant of InitEntries: a key without a default gets no entry in values
RECURSIVE InitEntriesSkipUndefined(_, _, _, _, _)
InitEntriesSkipUndefined(norm, p, vals, pres, h) ==
    IF p > Len(norm) THEN [values |-> vals, present |-> pres, heap |-> h]
    ELSE LET c == cloneDefault(norm[p].spec.default, norm[p].spec.type, h)
         IN InitEntriesSkipUndefined(norm, p + 1,
                        IF c.value = Undef THEN vals ELSE Put(vals, norm[p].key, c.value),
                        Put(pres, norm[p].key, FALSE), c.heap)

\* the loop of lines 229-232, from entry p of normalized on
RECURSIVE InitEntries(_, _, _, _, _)
InitEntries(norm, p, vals, pres, h) ==
    IF p > Len(norm) THEN [values |-> vals, present |-> pres, heap |-> h]
    ELSE LET c == cloneDefault(norm[p].spec.default, norm[p].spec.type, h)
         IN InitEntries(norm, p + 1, Put(vals, norm[p].key, c.value),
                        Put(pres, norm[p].key, FALSE), c.heap)

\* globalThis.process of the runtime scenario n runs in: undefined where the
\* scenario says so, an object with the property argv elsewhere
ProcessOf(n) ==
    IF "process" \in DOMAIN Scenarios[n] THEN Scenarios[n].process
    ELSE [t |-> "object", argv |-> ProcessArgv]

\* line 219 throws: options.argv is not given and process is undefined, so
\* reading process.argv is a TypeError
ArgvThrows(opts, n) == opts.argv = Undef /\ ProcessOf(n) = Undef

\* [ ...options.argv ], or process.argv.slice(2) when options.argv is not given
ArgvOf(opts, h) ==
    IF opts.argv # Undef THEN h[opts.argv.ref]
    ELSE IF ProcessOf(scn) # Undef THEN SliceFrom(ProcessOf(scn).argv, 2)
    ELSE <<>>

\* the loop header of line 238 with the cursor at n, over the tokens a
LoopAt(a, n) ==
    /\ i' = n
    /\ pc' = IF n < Len(a) THEN "scan" ELSE "required"

\* lines 218-232 for the options object opts, on the heap h
Enter(opts, h) ==
    LET v == validateSchema(schema, h)
        thrown == IF v.threw THEN v.error
                  ELSE TypeError(<<Lit("Cannot read properties of undefined (reading 'argv')")>>)
    IN
    IF v.threw \/ ArgvThrows(opts, scn)
    THEN /\ pc' = "thrown"
         /\ error' = thrown
         /\ first' = IF first = NoOutcome THEN [kind |-> "thrown", error |-> thrown]
                     ELSE first
         /\ heap' = h
         /\ flagToKey' = EmptyMap
         /\ normalized' = <<>>
         /\ argv' = <<>>
         /\ allowUnknown' = FALSE
         /\ stopAtDoubleDash' = FALSE
         /\ values' = EmptyObject
         /\ present' = EmptyObject
         /\ i' = 0
    ELSE LET init == InitEntries(v.normalized, 1, EmptyObject, EmptyObject, h) IN
         /\ flagToKey' = v.flagToKey
         /\ normalized' = v.normalized
         /\ argv' = ArgvOf(opts, h)
         /\ allowUnknown' = (opts.allowUnknown = Bool(TRUE))
         /\ stopAtDoubleDash' = (opts.stopAtDoubleDash # Bool(FALSE))
         /\ values' = init.values
         /\ present' = init.present
         /\ heap' = init.heap
         /\ error' = NoError
         /\ first' = first
         /\ LoopAt(ArgvOf(opts, h), 0)

\* mutant of FreshResult: one issues array shared by all calls
StaleIssues ==
    /\ issues' = issues
    /\ unknown' = <<>>
    /\ rest' = <<>>

\* lines 225-227: the issues, unknown and rest of a call start empty
FreshResult ==
    /\ issues' = <<>>
    /\ unknown' = <<>>
    /\ rest' = <<>>

ResetResult ==
    /\ FreshResult
    /\ ok' = FALSE
    /\ visited' = {}
    /\ mutated' = FALSE
    /\ json' = NoJson

\* the caller builds an options object and calls parseArgs(schema, options)
Call ==
    /\ pc = "idle"
    /\ \E tokens \in SeqsUpTo(Scenarios[scn].tokens, MaxArgv),
          given \in BOOLEAN,
          au \in {Undef, Bool(TRUE)},
          sdd \in {Undef, Bool(FALSE)} :
        /\ given \/ tokens = <<>>
        /\ LET elems == [p \in 1..Len(tokens) |-> Str(tokens[p])]
               a == Alloc(heap, elems)
               opts == [argv |-> IF given THEN a.value ELSE Undef,
                        allowUnknown |-> au, stopAtDoubleDash |-> sdd]
               h == IF given THEN a.heap ELSE heap
           IN /\ options' = opts
              /\ argvAtCall' = IF given THEN elems ELSE <<>>
              /\ Enter(opts, h)
    /\ ResetResult
    /\ UNCHANGED <<scn, schema, again, mutatedBefore>>

\* the arrays the caller holds across calls: the schema's and options.argv; the
\* arrays of a result are garbage once the caller lets go of the result
CallerHeap(h) ==
    SubSeq(h, 1, Len(Scenarios[scn].heap) + (IF options.argv # Undef THEN 1 ELSE 0))

\* the caller drops the outcome of the last call and calls parseArgs again with
\* the same schema and options objects
CallAgain ==
    /\ pc \in {"returned", "thrown"}
    /\ Enter(options, CallerHeap(heap))
    /\ ResetResult
    /\ again' = TRUE
    /\ mutatedBefore' = (mutatedBefore \/ mutated)
    /\ UNCHANGED <<scn, schema, options, argvAtCall>>

(***************************************************************************)
(* parseArgs, lines 238-454: one action per kind of loop iteration.  argv  *)
(* holds strings only, so the `token === undefined` and `spec ===          *)
(* undefined` guards of lines 240 and 295 never hold.                      *)
(***************************************************************************)
\* mutant of LoopTo: the cursor is left where it was
LoopToSame(n) == LoopAt(argv, i)

\* what ends a loop iteration: i is set, and the loop condition is tested
LoopTo(n) == LoopAt(argv, n)

\* argv[n], 0-based: undefined past the end
At(a, n) == IF n >= 0 /\ n < Len(a) THEN a[n + 1] ELSE Undef

Token == At(argv, i)
Split == splitInlineValue(Token.s)
Flag == Split.flag
InlineValue == Split.value

NoPrefix == <<"-", "-", "n", "o", "-">>

\* `--${flag.slice(5)}`
NegationBase(flag) == DoubleDash \o SliceFrom(flag, 5)

\* present[key] === true
PresentIs(key) == key \in DOMAIN present /\ present[key] = TRUE

\* mutant of IsNegation: allowNo is not looked at
IsNegationIgnoringAllowNo ==
    /\ StartsWith(Flag, NoPrefix)
    /\ ~MapHas(flagToKey, Flag)
    /\ MapHas(flagToKey, NegationBase(Flag))
    /\ LET baseSpec == NormalizedGet(normalized, MapGet(flagToKey, NegationBase(Flag)))
       IN baseSpec.type = TBoolean

\* the conditions of lines 255-260 under which the token is a negation
IsNegation ==
    /\ StartsWith(Flag, NoPrefix)
    /\ ~MapHas(flagToKey, Flag)
    /\ MapHas(flagToKey, NegationBase(Flag))
    /\ LET baseSpec == NormalizedGet(normalized, MapGet(flagToKey, NegationBase(Flag)))
       IN baseSpec.type = TBoolean /\ baseSpec.allowNo # Bool(FALSE)

\* mutant of AtDoubleDash: '--' is never taken as the terminator
AtDoubleDashNever == FALSE

AtDoubleDash == stopAtDoubleDash /\ Token = Str(DoubleDash)

\* the loop is at a flag token that is not a negation (line 278 is reached)
AtFlag ==
    /\ pc = "scan"
    /\ ~AtDoubleDash
    /\ isFlagToken(Token)
    /\ ~IsNegation

\* line 278 resolved the flag to a key whose spec has the given type
AtFlagOfType(type) ==
    /\ AtFlag
    /\ MapHas(flagToKey, Flag)
    /\ NormalizedGet(normalized, MapGet(flagToKey, Flag)).type = type

Key == MapGet(flagToKey, Flag)
KeySpec == NormalizedGet(normalized, Key)

\* mutant of DuplicateIssue: the repeat is reported as an error
DuplicateIssueAsError(flag, key, index) ==
    [code |-> "DUPLICATE", severity |-> "error",
     message |-> <<Lit("Duplicate flag "), StrPart(flag), Lit(".")>>,
     flag |-> flag, key |-> key, index |-> index]

DuplicateIssue(flag, key, index) ==
    [code |-> "DUPLICATE", severity |-> "warning",
     message |-> <<Lit("Duplicate flag "), StrPart(flag), Lit(".")>>,
     flag |-> flag, key |-> key, index |-> index]

MissingValueIssue(flag, key, index) ==
    [code |-> "MISSING_VALUE", severity |-> "error",
     message |-> <<Lit("Missing value for "), StrPart(flag), Lit(".")>>,
     flag |-> flag, key |-> key, index |-> index]

\* mutant of IssuesAfterDuplicate: the type of the key is not looked at
IssuesAfterDuplicateAnyType ==
    IF PresentIs(Key)
    THEN Append(issues, DuplicateIssue(Flag, Key, i))
    ELSE issues

\* issues after lines 299-309: the DUPLICATE warning of a repeated non-array flag
IssuesAfterDuplicate ==
    IF PresentIs(Key) /\ KeySpec.type # TArray
    THEN Append(issues, DuplicateIssue(Flag, Key, i))
    ELSE issues

\* what no loop iteration changes
ScanFrame ==
    UNCHANGED <<scn, schema, options, argvAtCall, first, mutated, again, mutatedBefore, json, flagToKey,
                normalized, argv, allowUnknown, stopAtDoubleDash, ok, error>>

\* mutant of ScanDoubleDash: the tokens after '--' are spliced out of options.argv
ScanDoubleDashSplice ==
    /\ pc = "scan"
    /\ AtDoubleDash
    /\ rest' = rest \o SubSeq(argv, i + 2, Len(argv))
    /\ heap' = IF options.argv # Undef
               THEN [heap EXCEPT ![options.argv.ref] = SubSeq(@, 1, i + 1)]
               ELSE heap
    /\ pc' = "required"
    /\ visited' = visited \cup {i}
    /\ UNCHANGED <<i, values, present, issues, unknown>>
    /\ ScanFrame

\* lines 243-246: '--' ends the scan, the tokens after it go to rest
ScanDoubleDash ==
    /\ pc = "scan"
    /\ AtDoubleDash
    /\ rest' = rest \o SubSeq(argv, i + 2, Len(argv))
    /\ pc' = "required"
    /\ visited' = visited \cup {i}
    /\ UNCHANGED <<i, heap, values, present, issues, unknown>>
    /\ ScanFrame

\* mutant of ScanPositional: a token of one character is dropped
ScanPositionalDropsShort ==
    /\ pc = "scan"
    /\ ~AtDoubleDash
    /\ ~isFlagToken(Token)
    /\ rest' = IF Len(Token.s) = 1 THEN rest ELSE Append(rest, Token)
    /\ LoopTo(i + 1)
    /\ visited' = visited \cup {i}
    /\ UNCHANGED <<heap, values, present, issues, unknown>>
    /\ ScanFrame

\* lines 247-250: a token that is not flag-shaped goes to rest
ScanPositional ==
    /\ pc = "scan"
    /\ ~AtDoubleDash
    /\ ~isFlagToken(Token)
    /\ rest' = Append(rest, Token)
    /\ LoopTo(i + 1)
    /\ visited' = visited \cup {i}
    /\ UNCHANGED <<heap, values, present, issues, unknown>>
    /\ ScanFrame

\* lines 255-276: --no-<name> of a boolean key that allows it
ScanNegation ==
    /\ pc = "scan"
    /\ ~AtDoubleDash
    /\ isFlagToken(Token)
    /\ IsNegation
    /\ LET base == NegationBase(Flag)
           baseKey == MapGet(flagToKey, base)
       IN /\ issues' = IF PresentIs(baseKey)
                       THEN Append(issues, DuplicateIssue(base, baseKey, i))
                       ELSE issues
          /\ present' = Put(present, baseKey, TRUE)
          /\ values' = Put(values, baseKey, Bool(FALSE))
    /\ LoopTo(i + 1)
    /\ visited' = visited \cup {i}
    /\ UNCHANGED <<heap, unknown, rest>>
    /\ ScanFrame

\* mutant of ScanUnknown: unknown gets the flag part, without the inline value
ScanUnknownFlagPart ==
    /\ AtFlag
    /\ ~MapHas(flagToKey, Flag)
    /\ IF ~allowUnknown
       THEN /\ issues' = Append(issues,
                    [code |-> "UNKNOWN_FLAG", severity |-> "error",
                     message |-> <<Lit("Unknown flag "), StrPart(Flag), Lit(".")>>,
                     flag |-> Flag, index |-> i])
            /\ unknown' = unknown
       ELSE /\ unknown' = Append(unknown, Str(Flag))
            /\ issues' = issues
    /\ LoopTo(i + 1)
    /\ visited' = visited \cup {i}
    /\ UNCHANGED <<heap, values, present, rest>>
    /\ ScanFrame

\* lines 278-292: a flag no key declares
ScanUnknown ==
    /\ AtFlag
    /\ ~MapHas(flagToKey, Flag)
    /\ IF ~allowUnknown
       THEN /\ issues' = Append(issues,
                    [code |-> "UNKNOWN_FLAG", severity |-> "error",
                     message |-> <<Lit("Unknown flag "), StrPart(Flag), Lit(".")>>,
                     flag |-> Flag, index |-> i])
            /\ unknown' = unknown
       ELSE /\ unknown' = Append(unknown, Token)
            /\ issues' = issues
    /\ LoopTo(i + 1)
    /\ visited' = visited \cup {i}
    /\ UNCHANGED <<heap, values, present, rest>>
    /\ ScanFrame

\* mutant of ScanBoolean: a value that is no boolean word counts as presence
ScanBooleanInvalidIsTrue ==
    /\ AtFlagOfType(TBoolean)
    /\ present' = Put(present, Key, TRUE)
    /\ LET nextValue == At(argv, i + 1)
           consumedNext == InlineValue = Undef /\ normalizeBoolean(nextValue) # Undef
           raw == IF InlineValue # Undef THEN InlineValue
                  ELSE IF consumedNext THEN nextValue ELSE Undef
           normalizedValue == normalizeBoolean(raw)
       IN IF raw # Undef
          THEN IF normalizedValue = Undef
               THEN /\ issues' = Append(IssuesAfterDuplicate,
                            [code |-> "INVALID_VALUE", severity |-> "error",
                             message |-> <<Lit("Invalid boolean value for "), StrPart(Flag),
                                           Lit(": "), StrPart(raw.s), Lit(".")>>,
                             flag |-> Flag, key |-> Key, value |-> raw.s, index |-> i])
                    /\ values' = Put(values, Key, Bool(TRUE))
                    /\ LoopTo(i + 1)
               ELSE /\ values' = Put(values, Key, normalizedValue)
                    /\ issues' = IssuesAfterDuplicate
                    /\ LoopTo(IF consumedNext THEN i + 2 ELSE i + 1)
          ELSE /\ values' = Put(values, Key, Bool(TRUE))
               /\ issues' = IssuesAfterDuplicate
               /\ LoopTo(i + 1)
    /\ visited' = visited \cup {i}
    /\ UNCHANGED <<heap, unknown, rest>>
    /\ ScanFrame

\* lines 313-346: a boolean flag
ScanBoolean ==
    /\ AtFlagOfType(TBoolean)
    /\ present' = Put(present, Key, TRUE)
    /\ LET nextValue == At(argv, i + 1)
           consumedNext == InlineValue = Undef /\ normalizeBoolean(nextValue) # Undef
           raw == IF InlineValue # Undef THEN InlineValue
                  ELSE IF consumedNext THEN nextValue ELSE Undef
           normalizedValue == normalizeBoolean(raw)
       IN IF raw # Undef
          THEN IF normalizedValue = Undef
               THEN /\ issues' = Append(IssuesAfterDuplicate,
                            [code |-> "INVALID_VALUE", severity |-> "error",
                             message |-> <<Lit("Invalid boolean value for "), StrPart(Flag),
                                           Lit(": "), StrPart(raw.s), Lit(".")>>,
                             flag |-> Flag, key |-> Key, value |-> raw.s, index |-> i])
                    /\ values' = values
                    /\ LoopTo(i + 1)
               ELSE /\ values' = Put(values, Key, normalizedValue)
                    /\ issues' = IssuesAfterDuplicate
                    /\ LoopTo(IF consumedNext THEN i + 2 ELSE i + 1)
          ELSE /\ values' = Put(values, Key, Bool(TRUE))
               /\ issues' = IssuesAfterDuplicate
               /\ LoopTo(i + 1)
    /\ visited' = visited \cup {i}
    /\ UNCHANGED <<heap, unknown, rest>>
    /\ ScanFrame

\* mutant of ScanString: a flag-shaped next token is taken as the value
ScanStringTakesFlag ==
    /\ AtFlagOfType(TString)
    /\ present' = Put(present, Key, TRUE)
    /\ LET nextValue == At(argv, i + 1)
           missing == InlineValue = Undef /\ ~IsString(nextValue)
           raw == IF InlineValue # Undef THEN InlineValue ELSE nextValue
           j == IF InlineValue # Undef THEN i ELSE i + 1
       IN IF missing
          THEN /\ issues' = Append(IssuesAfterDuplicate, MissingValueIssue(Flag, Key, i))
               /\ values' = values
               /\ LoopTo(i + 1)
          ELSE IF Len(raw.s) = 0 /\ KeySpec.allowEmpty # Bool(TRUE)
          THEN /\ issues' = Append(IssuesAfterDuplicate,
                       [code |-> "EMPTY_VALUE", severity |-> "error",
                        message |-> <<Lit("Empty value not allowed for "), StrPart(Flag), Lit(".")>>,
                        flag |-> Flag, key |-> Key, index |-> j])
               /\ values' = values
               /\ LoopTo(j + 1)
          ELSE /\ values' = Put(values, Key, raw)
               /\ issues' = IssuesAfterDuplicate
               /\ LoopTo(j + 1)
    /\ visited' = visited \cup {i}
    /\ UNCHANGED <<heap, unknown, rest>>
    /\ ScanFrame

\* mutant of ScanString: allowEmpty is not looked at
ScanStringNeverEmpty ==
    /\ AtFlagOfType(TString)
    /\ present' = Put(present, Key, TRUE)
    /\ LET nextValue == At(argv, i + 1)
           missing == InlineValue = Undef /\ (~IsString(nextValue) \/ isFlagToken(nextValue))
           raw == IF InlineValue # Undef THEN InlineValue ELSE nextValue
           j == IF InlineValue # Undef THEN i ELSE i + 1
       IN IF missing
          THEN /\ issues' = Append(IssuesAfterDuplicate, MissingValueIssue(Flag, Key, i))
               /\ values' = values
               /\ LoopTo(i + 1)
          ELSE IF Len(raw.s) = 0
          THEN /\ issues' = Append(IssuesAfterDuplicate,
                       [code |-> "EMPTY_VALUE", severity |-> "error",
                        message |-> <<Lit("Empty value not allowed for "), StrPart(Flag), Lit(".")>>,
                        flag |-> Flag, key |-> Key, index |-> j])
               /\ values' = values
               /\ LoopTo(j + 1)
          ELSE /\ values' = Put(values, Key, raw)
               /\ issues' = IssuesAfterDuplicate
               /\ LoopTo(j + 1)
    /\ visited' = visited \cup {i}
    /\ UNCHANGED <<heap, unknown, rest>>
    /\ ScanFrame

\* lines 347-378: a string flag
ScanString ==
    /\ AtFlagOfType(TString)
    /\ present' = Put(present, Key, TRUE)
    /\ LET nextValue == At(argv, i + 1)
           missing == InlineValue = Undef /\ (~IsString(nextValue) \/ isFlagToken(nextValue))
           raw == IF InlineValue # Undef THEN InlineValue ELSE nextValue
           j == IF InlineValue # Undef THEN i ELSE i + 1
       IN IF missing
          THEN /\ issues' = Append(IssuesAfterDuplicate, MissingValueIssue(Flag, Key, i))
               /\ values' = values
               /\ LoopTo(i + 1)
          ELSE IF Len(raw.s) = 0 /\ KeySpec.allowEmpty # Bool(TRUE)
          THEN /\ issues' = Append(IssuesAfterDuplicate,
                       [code |-> "EMPTY_VALUE", severity |-> "error",
                        message |-> <<Lit("Empty value not allowed for "), StrPart(Flag), Lit(".")>>,
                        flag |-> Flag, key |-> Key, index |-> j])
               /\ values' = values
               /\ LoopTo(j + 1)
          ELSE /\ values' = Put(values, Key, raw)
               /\ issues' = IssuesAfterDuplicate
               /\ LoopTo(j + 1)
    /\ visited' = visited \cup {i}
    /\ UNCHANGED <<heap, unknown, rest>>
    /\ ScanFrame

\* mutant of ScanNumber: a flag-shaped next token is never a value
ScanNumberFlagGuard ==
    /\ AtFlagOfType(TNumber)
    /\ present' = Put(present, Key, TRUE)
    /\ LET nextValue == At(argv, i + 1)
           missing == /\ InlineValue = Undef
                      /\ \/ ~IsString(nextValue)
                         \/ isFlagToken(nextValue)
           raw == IF InlineValue # Undef THEN InlineValue ELSE nextValue
           j == IF InlineValue # Undef THEN i ELSE i + 1
       IN IF missing
          THEN /\ issues' = Append(IssuesAfterDuplicate, MissingValueIssue(Flag, Key, i))
               /\ values' = values
               /\ LoopTo(i + 1)
          ELSE IF ~isNumericValue(raw)
          THEN /\ issues' = Append(IssuesAfterDuplicate,
                       [code |-> "INVALID_VALUE", severity |-> "error",
                        message |-> <<Lit("Invalid number value for "), StrPart(Flag),
                                      Lit(": "), StrPart(raw.s), Lit(".")>>,
                        flag |-> Flag, key |-> Key, value |-> raw.s, index |-> j])
               /\ values' = values
               /\ LoopTo(j + 1)
          ELSE /\ values' = Put(values, Key, ToNumber(raw.s))
               /\ issues' = IssuesAfterDuplicate
               /\ LoopTo(j + 1)
    /\ visited' = visited \cup {i}
    /\ UNCHANGED <<heap, unknown, rest>>
    /\ ScanFrame

\* mutant of ScanNumber: a value that is no number clears the key
ScanNumberInvalidClears ==
    /\ AtFlagOfType(TNumber)
    /\ present' = Put(present, Key, TRUE)
    /\ LET nextValue == At(argv, i + 1)
           missing == /\ InlineValue = Undef
                      /\ \/ ~IsString(nextValue)
                         \/ (~isNumericValue(nextValue) /\ isFlagToken(nextValue))
           raw == IF InlineValue # Undef THEN InlineValue ELSE nextValue
           j == IF InlineValue # Undef THEN i ELSE i + 1
       IN IF missing
          THEN /\ issues' = Append(IssuesAfterDuplicate, MissingValueIssue(Flag, Key, i))
               /\ values' = values
               /\ LoopTo(i + 1)
          ELSE IF ~isNumericValue(raw)
          THEN /\ issues' = Append(IssuesAfterDuplicate,
                       [code |-> "INVALID_VALUE", severity |-> "error",
                        message |-> <<Lit("Invalid number value for "), StrPart(Flag),
                                      Lit(": "), StrPart(raw.s), Lit(".")>>,
                        flag |-> Flag, key |-> Key, value |-> raw.s, index |-> j])
               /\ values' = Put(values, Key, Undef)
               /\ LoopTo(j + 1)
          ELSE /\ values' = Put(values, Key, ToNumber(raw.s))
               /\ issues' = IssuesAfterDuplicate
               /\ LoopTo(j + 1)
    /\ visited' = visited \cup {i}
    /\ UNCHANGED <<heap, unknown, rest>>
    /\ ScanFrame

\* lines 379-411: a number flag
ScanNumber ==
    /\ AtFlagOfType(TNumber)
    /\ present' = Put(present, Key, TRUE)
    /\ LET nextValue == At(argv, i + 1)
           missing == /\ InlineValue = Undef
                      /\ \/ ~IsString(nextValue)
                         \/ (~isNumericValue(nextValue) /\ isFlagToken(nextValue))
           raw == IF InlineValue # Undef THEN InlineValue ELSE nextValue
           j == IF InlineValue # Undef THEN i ELSE i + 1
       IN IF missing
          THEN /\ issues' = Append(IssuesAfterDuplicate, MissingValueIssue(Flag, Key, i))
               /\ values' = values
               /\ LoopTo(i + 1)
          ELSE IF ~isNumericValue(raw)
          THEN /\ issues' = Append(IssuesAfterDuplicate,
                       [code |-> "INVALID_VALUE", severity |-> "error",
                        message |-> <<Lit("Invalid number value for "), StrPart(Flag),
                                      Lit(": "), StrPart(raw.s), Lit(".")>>,
                        flag |-> Flag, key |-> Key, value |-> raw.s, index |-> j])
               /\ values' = values
               /\ LoopTo(j + 1)
          ELSE /\ values' = Put(values, Key, ToNumber(raw.s))
               /\ issues' = IssuesAfterDuplicate
               /\ LoopTo(j + 1)
    /\ visited' = visited \cup {i}
    /\ UNCHANGED <<heap, unknown, rest>>
    /\ ScanFrame

\* the cursor after the while loop of lines 418-432 started at cursor
RECURSIVE CollectEnd(_, _, _)
CollectEnd(a, cursor, stop) ==
    IF cursor >= Len(a) THEN cursor
    ELSE IF stop /\ At(a, cursor) = Str(DoubleDash) THEN cursor
    ELSE IF isFlagToken(At(a, cursor)) THEN cursor
    ELSE CollectEnd(a, cursor + 1, stop)

\* mutant of Collected: the inline value is collected even when it is empty
CollectedWithEmptyInline(a, from, inlineValue, stop) ==
    (IF inlineValue # Undef THEN <<inlineValue>> ELSE <<>>)
        \o SubSeq(a, from + 1, CollectEnd(a, from, stop))

\* collected, lines 413-432: the non-empty inline value, then argv[from .. cursor-1]
Collected(a, from, inlineValue, stop) ==
    (IF inlineValue # Undef /\ Len(inlineValue.s) > 0 THEN <<inlineValue>> ELSE <<>>)
        \o SubSeq(a, from + 1, CollectEnd(a, from, stop))

\* mutant of AppendCollected: the occurrence overwrites what was accumulated
OverwriteCollected(existing, collected) == collected

\* [ ...existing, ...collected ], lines 447-448
AppendCollected(existing, collected) == existing \o collected

\* mutant of ScanArray: the loop goes on after the token that ended the collection
ScanArraySkipsTerminator ==
    /\ AtFlagOfType(TArray)
    /\ present' = Put(present, Key, TRUE)
    /\ LET collected == Collected(argv, i + 1, InlineValue, stopAtDoubleDash)
           cursor == CollectEnd(argv, i + 1, stopAtDoubleDash)
           j == cursor
       IN IF Len(collected) = 0 /\ KeySpec.allowEmpty # Bool(TRUE)
          THEN /\ issues' = Append(IssuesAfterDuplicate, MissingValueIssue(Flag, Key, j))
               /\ values' = values
               /\ heap' = heap
               /\ LoopTo(j + 1)
          ELSE LET existing == IF IsArray(Get(values, Key))
                               THEN heap[Get(values, Key).ref] ELSE <<>>
                   new == Alloc(heap, AppendCollected(existing, collected))
               IN /\ values' = Put(values, Key, new.value)
                  /\ heap' = new.heap
                  /\ issues' = IssuesAfterDuplicate
                  /\ LoopTo(j + 1)
    /\ visited' = visited \cup {i}
    /\ UNCHANGED <<unknown, rest>>
    /\ ScanFrame

\* lines 412-450: an array flag
ScanArray ==
    /\ AtFlagOfType(TArray)
    /\ present' = Put(present, Key, TRUE)
    /\ LET collected == Collected(argv, i + 1, InlineValue, stopAtDoubleDash)
           cursor == CollectEnd(argv, i + 1, stopAtDoubleDash)
           j == IF cursor > i + 1 THEN cursor - 1 ELSE i
       IN IF Len(collected) = 0 /\ KeySpec.allowEmpty # Bool(TRUE)
          THEN /\ issues' = Append(IssuesAfterDuplicate, MissingValueIssue(Flag, Key, j))
               /\ values' = values
               /\ heap' = heap
               /\ LoopTo(j + 1)
          ELSE LET existing == IF IsArray(Get(values, Key))
                               THEN heap[Get(values, Key).ref] ELSE <<>>
                   new == Alloc(heap, AppendCollected(existing, collected))
               IN /\ values' = Put(values, Key, new.value)
                  /\ heap' = new.heap
                  /\ issues' = IssuesAfterDuplicate
                  /\ LoopTo(j + 1)
    /\ visited' = visited \cup {i}
    /\ UNCHANGED <<unknown, rest>>
    /\ ScanFrame

(***************************************************************************)
(* parseArgs, lines 456-479: the required pass, ok and the return.         *)
(***************************************************************************)
\* the REQUIRED issues of lines 456-467, from entry p of normalized on
RECURSIVE RequiredIssues(_, _)
RequiredIssues(norm, p) ==
    IF p > Len(norm) THEN <<>>
    ELSE (IF norm[p].spec.required = Bool(TRUE) /\ ~PresentIs(norm[p].key)
          THEN <<[code |-> "REQUIRED", severity |-> "error",
                  message |-> <<Lit("Missing required flag "),
                                StrPart(norm[p].spec.flags[1]), Lit(".")>>,
                  flag |-> norm[p].spec.flags[1], key |-> norm[p].key]>>
          ELSE <<>>) \o RequiredIssues(norm, p + 1)

\* mutant of ComputeOk: ok only when there is no issue at all
ComputeOkNoIssues(iss) == Len(iss) = 0

\* issues.every((issue) => issue.severity !== 'error')
ComputeOk(iss) == \A p \in 1..Len(iss) : iss[p].severity # "error"

\* a value as assert.deepStrictEqual sees it: an array by its elements
Deep(v, h) == IF IsArray(v) THEN [t |-> "array", elems |-> h[v.ref]] ELSE v

\* the result of a call, as the caller can observe it
ResultOf(vals, pres, rst, unk, iss, k, h) ==
    [kind |-> "returned",
     values |-> [x \in DOMAIN vals |-> Deep(vals[x], h)],
     present |-> pres, rest |-> rst, unknown |-> unk, issues |-> iss, ok |-> k]

\* mutant of Return: the REQUIRED issues go in front of the scan-time issues
ReturnRequiredFirst ==
    /\ pc = "required"
    /\ issues' = RequiredIssues(normalized, 1) \o issues
    /\ ok' = ComputeOk(issues')
    /\ pc' = "returned"
    /\ first' = IF first = NoOutcome
                THEN ResultOf(values, present, rest, unknown, issues', ok', heap)
                ELSE first
    /\ UNCHANGED <<scn, schema, heap, options, flagToKey, normalized, argv,
                   allowUnknown, stopAtDoubleDash, values, present, unknown, rest, i,
                   error, visited, argvAtCall, mutated, again, mutatedBefore, json>>

\* lines 456-479: the required pass, ok, and the result
Return ==
    /\ pc = "required"
    /\ issues' = issues \o RequiredIssues(normalized, 1)
    /\ ok' = ComputeOk(issues')
    /\ pc' = "returned"
    /\ first' = IF first = NoOutcome
                THEN ResultOf(values, present, rest, unknown, issues', ok', heap)
                ELSE first
    /\ UNCHANGED <<scn, schema, heap, options, flagToKey, normalized, argv,
                   allowUnknown, stopAtDoubleDash, values, present, unknown, rest, i,
                   error, visited, argvAtCall, mutated, again, mutatedBefore, json>>

(***************************************************************************)
(* The caller, with the result in hand: result.values[k].push('mutated')   *)
(* (test/claims.test.js, lines 26-39).                                     *)
(***************************************************************************)
MutateResult ==
    /\ pc = "returned"
    /\ ~mutated
    /\ \E k \in DOMAIN values :
        /\ IsArray(values[k])
        /\ heap' = [heap EXCEPT ![values[k].ref] = Append(@, Str(tMutated))]
    /\ mutated' = TRUE
    /\ UNCHANGED <<scn, schema, options, pc, flagToKey, normalized, argv,
                   allowUnknown, stopAtDoubleDash, values, present, issues, unknown,
                   rest, i, ok, error, visited, argvAtCall, first, again, mutatedBefore,
                   json>>

(***************************************************************************)
(* toJsonResult, lines 483-506, called by the caller on the result of its  *)
(* first call; and the caller, with the projection in hand, pushing onto   *)
(* its rest, unknown and issues.                                           *)
(***************************************************************************)
\* mutant of SpreadCopy: the array a of the result itself
SameArray(name, a) == [of |-> name, elems |-> a]

\* [ ...a ]: a new array with the elements of the result's array a
SpreadCopy(name, a) == [of |-> "copy", elems |-> a]

\* lines 487-491: null for undefined, the value itself otherwise
JsonValue(value) == IF value = Undef THEN Null ELSE value

toJsonResult(vals, pres, rst, unk, iss, k) ==
    [values |-> [x \in DOMAIN vals |-> JsonValue(vals[x])],
     present |-> [x \in DOMAIN pres |-> pres[x]],
     rest |-> SpreadCopy("rest", rst),
     unknown |-> SpreadCopy("unknown", unk),
     issues |-> SpreadCopy("issues", iss),
     ok |-> k]

ToJson ==
    /\ pc = "returned"
    /\ ~again
    /\ json = NoJson
    /\ json' = [kind |-> "json", pushed |-> FALSE,
                out |-> toJsonResult(values, present, rest, unknown, issues, ok)]
    /\ UNCHANGED <<scn, schema, heap, options, pc, flagToKey, normalized, argv,
                   allowUnknown, stopAtDoubleDash, values, present, issues, unknown,
                   rest, i, ok, error, visited, argvAtCall, first, mutated, again,
                   mutatedBefore>>

\* the elements of the result's array called name after a push onto the array a
\* of the projection
AfterPush(name, a, elems) == IF a.of = name THEN Append(elems, Str(tMutated)) ELSE elems

\* json.rest.push('mutated'); json.unknown.push('mutated'); json.issues.push('mutated')
MutateJson ==
    /\ pc = "returned"
    /\ json # NoJson
    /\ ~json.pushed
    /\ json' = [json EXCEPT !.pushed = TRUE,
                            !.out.rest.elems = Append(@, Str(tMutated)),
                            !.out.unknown.elems = Append(@, Str(tMutated)),
                            !.out.issues.elems = Append(@, Str(tMutated))]
    /\ rest' = AfterPush("rest", json.out.rest, rest)
    /\ unknown' = AfterPush("unknown", json.out.unknown, unknown)
    /\ issues' = AfterPush("issues", json.out.issues, issues)
    /\ UNCHANGED <<scn, schema, heap, options, pc, flagToKey, normalized, argv,
                   allowUnknown, stopAtDoubleDash, values, present, i, ok, error,
                   visited, argvAtCall, first, mutated, again, mutatedBefore>>

Next ==
    \/ Call
    \/ CallAgain
    \/ ScanDoubleDash
    \/ ScanPositional
    \/ ScanNegation
    \/ ScanUnknown
    \/ ScanBoolean
    \/ ScanString
    \/ ScanNumber
    \/ ScanArray
    \/ Return
    \/ MutateResult
    \/ ToJson
    \/ MutateJson

\* the steps of parseArgs itself: the call is synchronous, so once entered it
\* runs on until it returns; the caller's steps (Call, CallAgain, MutateResult)
\* are under no such obligation
Run ==
    \/ ScanDoubleDash
    \/ ScanPositional
    \/ ScanNegation
    \/ ScanUnknown
    \/ ScanBoolean
    \/ ScanString
    \/ ScanNumber
    \/ ScanArray
    \/ Return

Spec == Init /\ [][Next]_vars

FairSpec == Spec /\ WF_vars(Run)

(***************************************************************************)
(* What the claims speak of, read off the caller's schema and the tokens.  *)
(***************************************************************************)
\* a call is past validation: its values and present exist
InCall == pc \in {"scan", "required", "returned"}

Returned == pc = "returned"

\* the arrays of the schema as the caller wrote them
SchemaHeap == Scenarios[scn].heap

SchemaKeys == {schema.entries[p].key : p \in 1..Len(schema.entries)}

RawSpec(k) == schema.entries[CHOOSE p \in 1..Len(schema.entries) : schema.entries[p].key = k].spec

\* the flag tokens the schema declares for key k
DeclaredFlags(k) ==
    {SchemaHeap[RawSpec(k).flags.ref][p].s : p \in 1..Len(SchemaHeap[RawSpec(k).flags.ref])}

AllDeclaredFlags == UNION {DeclaredFlags(k) : k \in SchemaKeys}

\* --no-<name> for each --<name> a boolean key declares
NegationsOf(k) ==
    IF RawSpec(k).type = TBoolean
    THEN {NoPrefix \o SliceFrom(f, 2) : f \in {g \in DeclaredFlags(k) : StartsWith(g, DoubleDash)}}
    ELSE {}

\* the negations the scanner honours: allowed, and not declared as flags themselves
HonouredNegationsOf(k) ==
    IF RawSpec(k).allowNo # Bool(FALSE)
    THEN {n \in NegationsOf(k) : n \notin AllDeclaredFlags}
    ELSE {}

\* the token f, bare or as f=value, is the string tok
IsTokenOf(f, tok) == tok.s = f \/ StartsWith(tok.s, f \o <<"=">>)

\* f, bare or with an inline value, is somewhere in argv
Appears(f) == \E p \in 1..Len(argv) : IsTokenOf(f, argv[p])

\* the positions the scanner took a flag at: not past a terminating '--', not
\* the '--' itself, and not a token taken as the value of the flag before it
FlagPositions ==
    {p \in visited : isFlagToken(At(argv, p))
                     /\ ~(stopAtDoubleDash /\ At(argv, p) = Str(DoubleDash))}

\* the part of the token before its first '='
FlagPartAt(p) == splitInlineValue(At(argv, p).s).flag

ErrorIssues == {p \in 1..Len(issues) : issues[p].severity = "error"}
WarningIssues == {p \in 1..Len(issues) : issues[p].severity = "warning"}

\* the elements of an array value; none for undefined
Elems(v, h) == IF IsArray(v) THEN h[v.ref] ELSE <<>>

(***************************************************************************)
(* C1                                                                      *)
(***************************************************************************)
\* C1: in every result, ok is true exactly when no issue has severity error;
\* warnings alone leave ok true, one error makes it false.
C1_OkIffNoError == Returned => (ok <=> ErrorIssues = {})

\* a result with a DUPLICATE warning, no error, and ok true
C1_Witness == Returned /\ WarningIssues # {} /\ ErrorIssues = {} /\ ok

(***************************************************************************)
(* C2                                                                      *)
(***************************************************************************)
\* C2 as stated: present[k] is true exactly when one of k's flags, or the
\* --no- negation of a boolean k, appears as a token of argv.
C2_PresentIffAppears ==
    Returned =>
        \A k \in SchemaKeys :
            present[k] <=> \E f \in DeclaredFlags(k) \cup NegationsOf(k) : Appears(f)

\* C2 amended: present[k] is true exactly when a token the scanner took as a flag
\* (before any terminating '--', and not consumed as a value) has, before its
\* first '=', one of k's declared flags or a negation of k that is allowed and not
\* itself declared; a default never sets it.
C2_PresentIffScanned ==
    InCall =>
        \A k \in SchemaKeys :
            PresentIs(k) <=>
                \E p \in FlagPositions :
                    FlagPartAt(p) \in DeclaredFlags(k) \cup HonouredNegationsOf(k)

\* a result where a key with a default is not present and another key is
C2_Witness ==
    /\ Returned
    /\ \E k \in SchemaKeys : RawSpec(k).default # Undef /\ ~present[k] /\ values[k] # Undef
    /\ \E k \in SchemaKeys : present[k]

(***************************************************************************)
(* C3                                                                      *)
(***************************************************************************)
\* C3: values and present have exactly the schema's keys, whatever the tokens,
\* and a key that is not present holds its default, or undefined.
C3_KeySets ==
    InCall =>
        /\ DOMAIN values = SchemaKeys
        /\ DOMAIN present = SchemaKeys
        /\ ~mutated =>
            \A k \in SchemaKeys :
                ~present[k] => Deep(values[k], heap) = Deep(RawSpec(k).default, SchemaHeap)

\* a result over a non-empty argv with an unknown flag and a key left undefined
C3_Witness ==
    /\ Returned
    /\ \E p \in 1..Len(issues) : issues[p].code = "UNKNOWN_FLAG"
    /\ \E k \in SchemaKeys : values[k] = Undef
    /\ \E k \in SchemaKeys : present[k]

(***************************************************************************)
(* C4                                                                      *)
(***************************************************************************)
\* the positions where the scanner took a flag of key k
OccurrencesOf(k) == {p \in FlagPositions : FlagPartAt(p) \in DeclaredFlags(k)}

\* what the occurrence at position p collects
CollectedAt(p) ==
    Collected(argv, p + 1, splitInlineValue(At(argv, p).s).value, stopAtDoubleDash)

Min(S) == CHOOSE x \in S : \A y \in S : x <= y

\* what the occurrences at the positions P collect, in input order
RECURSIVE CollectedOver(_)
CollectedOver(P) ==
    IF P = {} THEN <<>> ELSE CollectedAt(Min(P)) \o CollectedOver(P \ {Min(P)})

ArrayKeys == {k \in SchemaKeys : RawSpec(k).type = TArray}

\* C4: at every point of the scan, the value of an array key is its default
\* followed by what each occurrence so far collected, in input order.
C4_ArrayAccumulates ==
    (InCall /\ ~mutated) =>
        \A k \in ArrayKeys :
            Elems(values[k], heap) =
                Elems(RawSpec(k).default, SchemaHeap) \o CollectedOver(OccurrencesOf(k))

\* a result where an array key with a default was given twice, each time with
\* elements
C4_Witness ==
    /\ Returned
    /\ \E k \in ArrayKeys :
        /\ Len(Elems(RawSpec(k).default, SchemaHeap)) > 0
        /\ \E p, q \in OccurrencesOf(k) :
            p < q /\ Len(CollectedAt(p)) > 0 /\ Len(CollectedAt(q)) > 0

(***************************************************************************)
(* C5                                                                      *)
(***************************************************************************)
\* C5: the array passed as options.argv keeps its elements, in every state
\* during and after a call.
C5_ArgvNotMutated ==
    options.argv # Undef => heap[options.argv.ref] = argvAtCall

\* a result of a scan that consumed a value and was cut short by '--'
C5_Witness ==
    /\ Returned
    /\ options.argv # Undef
    /\ Len(rest) > 0
    /\ i + 1 < Len(argv)
    /\ \E k \in SchemaKeys : present[k]

(***************************************************************************)
(* C6                                                                      *)
(***************************************************************************)
\* the outcome of the call, as the caller can observe it
Outcome ==
    IF pc = "thrown" THEN [kind |-> "thrown", error |-> error]
    ELSE ResultOf(values, present, rest, unknown, issues, ok, heap)

\* C6: a later call with the same schema, argv and options ends as the first one
\* did: the same error, or deeply equal values, present, rest, unknown, issues, ok.
C6_Deterministic ==
    (pc \in {"returned", "thrown"} /\ again /\ ~mutated) => Outcome = first

\* a repeated call that returned a result with issues and a key present
C6_Witness ==
    /\ Returned
    /\ again
    /\ ~mutated
    /\ Len(issues) > 0
    /\ \E k \in SchemaKeys : present[k]

(***************************************************************************)
(* C7                                                                      *)
(***************************************************************************)
ArrayDefaultKeys == {k \in ArrayKeys : IsArray(RawSpec(k).default)}

\* C7: the schema and its arrays are never written, the array in values[k] is
\* another object than the schema's default, and a call made after the caller
\* pushed into an earlier result returns what the first call returned.
C7_DefaultIsolated ==
    /\ schema = Scenarios[scn].schema
    /\ \A r \in 1..Len(SchemaHeap) : heap[r] = SchemaHeap[r]
    /\ InCall =>
        \A k \in ArrayDefaultKeys :
            IsArray(values[k]) => values[k].ref # RawSpec(k).default.ref
    /\ (Returned /\ mutatedBefore /\ ~mutated) =>
            ResultOf(values, present, rest, unknown, issues, ok, heap).values = first.values

\* a call returned the default of an array key after the caller pushed into the
\* array an earlier call returned
C7_Witness ==
    /\ Returned
    /\ mutatedBefore
    /\ ~mutated
    /\ \E k \in ArrayDefaultKeys : ~present[k] /\ Len(heap[values[k].ref]) > 0

(***************************************************************************)
(* C8                                                                      *)
(***************************************************************************)
SchemaIsObject == IsObjectNotArray(schema)

EntrySpecs == {schema.entries[p].spec : p \in 1..Len(schema.entries)}

\* allowNo on a non-boolean entry, allowEmpty (any value) on a boolean entry, or
\* a required that is not a boolean
MisusesModifier(spec) ==
    /\ IsObjectNotArray(spec)
    /\ \/ spec.allowNo # Undef /\ spec.type # TBoolean
       \/ spec.allowEmpty # Undef /\ spec.type = TBoolean
       \/ spec.required # Undef /\ spec.required.t # "boolean"

\* C8: a call with a schema entry that misuses allowNo, allowEmpty or required
\* throws and returns no result.
C8_ModifierMisuseThrows ==
    (pc # "idle" /\ SchemaIsObject /\ \E spec \in EntrySpecs : MisusesModifier(spec))
        => pc = "thrown"

(***************************************************************************)
(* C9                                                                      *)
(***************************************************************************)
\* the flags an entry lists, when it lists any
ListedFlags(spec) ==
    IF IsObjectNotArray(spec) /\ IsArray(spec.flags)
    THEN {SchemaHeap[spec.flags.ref][p] : p \in 1..Len(SchemaHeap[spec.flags.ref])}
    ELSE {}

\* the keys of two different entries that list the same flag token
ClashingKeys ==
    {k \in SchemaKeys :
        \E k2 \in SchemaKeys \ {k} : ListedFlags(RawSpec(k)) \cap ListedFlags(RawSpec(k2)) # {}}

NamesKey(message, k) == \E p \in 1..Len(message) : message[p] = KeyPart(k)

\* C9: a call with a flag token declared by two keys throws before any token is
\* scanned, and the message names both keys.
C9_DuplicateFlagNamesBothKeys ==
    (pc # "idle" /\ SchemaIsObject /\ ClashingKeys # {}) =>
        /\ pc = "thrown"
        /\ visited = {}
        /\ \A k \in ClashingKeys : NamesKey(error.message, k)

(***************************************************************************)
(* C10                                                                     *)
(***************************************************************************)
DefaultMismatch(spec) ==
    /\ spec.default # Undef
    /\ \/ spec.type = TString /\ ~IsString(spec.default)
       \/ spec.type = TBoolean /\ spec.default.t # "boolean"
       \/ spec.type = TNumber /\ (spec.default.t # "number" \/ ~spec.default.finite)
       \/ spec.type = TArray /\ (~IsArray(spec.default)
                                 \/ \E p \in 1..Len(SchemaHeap[spec.default.ref]) :
                                        ~IsString(SchemaHeap[spec.default.ref][p]))

BadFlag(flag) == ~IsString(flag) \/ Len(flag.s) < 2 \/ flag.s[1] # "-"

\* an entry that is no spec object, has a type outside the four, lists no flag,
\* lists a malformed flag, or has a default that does not match its type
MalformedEntry(spec) ==
    \/ ~IsObjectNotArray(spec)
    \/ spec.type \notin {TString, TBoolean, TNumber, TArray}
    \/ ~IsArray(spec.flags)
    \/ ListedFlags(spec) = {}
    \/ \E flag \in ListedFlags(spec) : BadFlag(flag)
    \/ DefaultMismatch(spec)

MalformedSchema == ~SchemaIsObject \/ \E spec \in EntrySpecs : MalformedEntry(spec)

\* C10: a call with a malformed schema throws, whatever argv is, before any token
\* is scanned; there is no values, no present and no issue.
C10_MalformedSchemaThrows ==
    (pc # "idle" /\ MalformedSchema) =>
        /\ pc = "thrown"
        /\ error.name = "TypeError"
        /\ visited = {}
        /\ issues = <<>>
        /\ values = EmptyObject
        /\ present = EmptyObject

\* a call over a non-empty argv threw for an entry whose default is not of its type
C10_Witness ==
    /\ pc = "thrown"
    /\ Len(argvAtCall) > 0
    /\ SchemaIsObject
    /\ \E spec \in EntrySpecs :
        /\ IsObjectNotArray(spec)
        /\ spec.type \in {TString, TBoolean, TNumber, TArray}
        /\ DefaultMismatch(spec)

(***************************************************************************)
(* C11                                                                     *)
(***************************************************************************)
\* the codes of the type IssueCode
IssueCode ==
    {"UNKNOWN_FLAG", "MISSING_VALUE", "INVALID_VALUE", "REQUIRED", "DUPLICATE", "EMPTY_VALUE"}

CodesOf(iss) == {iss[p].code : p \in 1..Len(iss)}

\* C11: every issue has one of the six codes, and its severity is warning exactly
\* when its code is DUPLICATE and error otherwise, at every point of every call.
C11_CodesAndSeverity ==
    \A p \in 1..Len(issues) :
        /\ issues[p].code \in IssueCode
        /\ issues[p].severity \in {"error", "warning"}
        /\ issues[p].severity = "warning" <=> issues[p].code = "DUPLICATE"

\* a result with a DUPLICATE warning next to errors of two other codes
C11_Witness ==
    /\ Returned
    /\ {"DUPLICATE", "INVALID_VALUE", "REQUIRED"} \subseteq CodesOf(issues)

(***************************************************************************)
(* C12                                                                     *)
(***************************************************************************)
\* a flag token that the schema lists twice, under one key or under two
FlagListedTwice ==
    \E k1, k2 \in SchemaKeys :
        LET f1 == SchemaHeap[RawSpec(k1).flags.ref]
            f2 == SchemaHeap[RawSpec(k2).flags.ref]
        IN \E p \in 1..Len(f1), q \in 1..Len(f2) : (k1 # k2 \/ p # q) /\ f1[p] = f2[q]

\* a schema validateSchema has nothing to object to
ValidSchema == ~MalformedSchema /\ ~FlagListedTwice

\* the call has tokens to parse: options.argv is given, or the runtime has a
\* process object
ArgvAvailable == options.argv # Undef \/ ProcessOf(scn) # Undef

DoubleDashPositions == {p \in 0..(Len(argv) - 1) : At(argv, p) = Str(DoubleDash)}

\* the position of the first '--'; only read when there is one
FirstDoubleDash == Min(DoubleDashPositions)

\* the tokens at the positions P, in input order
RECURSIVE TokensAt(_)
TokensAt(P) ==
    IF P = {} THEN <<>> ELSE <<At(argv, Min(P))>> \o TokensAt(P \ {Min(P)})

\* the scan is over: the required pass is next, or the result is out
ScanOver == pc \in {"required", "returned"}

\* C13: with stopAtDoubleDash on, no position after the first '--' is ever scanned
\* and no issue points past it; once the scan is over, the '--' was reached (no
\* flag before it took it as a value), rest is the positionals before it followed
\* by every token after it, in order, and unknown does not hold it.
C13_StopsAtDoubleDash ==
    (InCall /\ ~mutated /\ stopAtDoubleDash /\ DoubleDashPositions # {}) =>
        /\ \A p \in visited : p <= FirstDoubleDash
        /\ \A p \in FlagPositions : p < FirstDoubleDash
        /\ \A n \in 1..Len(issues) :
                "index" \in DOMAIN issues[n] => issues[n].index < FirstDoubleDash
        /\ \A n \in 1..Len(unknown) : unknown[n] # Str(DoubleDash)
        /\ ScanOver =>
            /\ FirstDoubleDash \in visited
            /\ rest = TokensAt({p \in visited : p < FirstDoubleDash /\ ~isFlagToken(At(argv, p))})
                        \o SubSeq(argv, FirstDoubleDash + 2, Len(argv))

\* a result where a declared flag was followed at once by '--', and '--' by a
\* declared flag
C13_Witness ==
    /\ Returned
    /\ stopAtDoubleDash
    /\ DoubleDashPositions # {}
    /\ FirstDoubleDash >= 1
    /\ At(argv, FirstDoubleDash - 1).s \in AllDeclaredFlags
    /\ FirstDoubleDash + 1 < Len(argv)
    /\ At(argv, FirstDoubleDash + 1).s \in AllDeclaredFlags
    /\ "MISSING_VALUE" \in CodesOf(issues)

(***************************************************************************)
(* C14                                                                     *)
(***************************************************************************)
\* the number of elements of the sequence s that equal v
CountOf(s, v) == Cardinality({n \in 1..Len(s) : s[n] = v})

\* the UNKNOWN_FLAG issues for the flag f
UnknownFlagIssues(f) ==
    {n \in 1..Len(issues) : issues[n].code = "UNKNOWN_FLAG" /\ issues[n].flag = f}

\* C14: with stopAtDoubleDash off and '--' not declared, a '--' never goes to
\* rest; each '--' scanned so far is an unknown flag, in unknown under
\* allowUnknown and an UNKNOWN_FLAG error otherwise; and once the scan is over
\* every '--' was scanned, and so was the token after it, in its own right.
C14_DoubleDashIsOrdinaryFlag ==
    (InCall /\ ~stopAtDoubleDash /\ DoubleDash \notin AllDeclaredFlags) =>
        /\ \A n \in 1..Len(rest) : rest[n] # Str(DoubleDash)
        /\ DoubleDashPositions \cap visited \subseteq FlagPositions
        /\ IF allowUnknown
           THEN /\ CountOf(unknown, Str(DoubleDash)) =
                        Cardinality(DoubleDashPositions \cap visited)
                /\ UnknownFlagIssues(DoubleDash) = {}
           ELSE /\ {issues[n].index : n \in UnknownFlagIssues(DoubleDash)} =
                        DoubleDashPositions \cap visited
                /\ Cardinality(UnknownFlagIssues(DoubleDash)) =
                        Cardinality(DoubleDashPositions \cap visited)
                /\ unknown = <<>>
        /\ pc \in {"required", "returned"} =>
            \A p \in DoubleDashPositions :
                /\ p \in visited
                /\ p + 1 < Len(argv) => p + 1 \in visited

\* the call of test/claims.test.js, lines 53-65: '--' first, then a declared flag
\* that the result has present, with '--' in unknown and nothing in rest
C14_Witness ==
    /\ Returned
    /\ ~stopAtDoubleDash
    /\ allowUnknown
    /\ At(argv, 0) = Str(DoubleDash)
    /\ unknown = <<Str(DoubleDash)>>
    /\ rest = <<>>
    /\ \E k \in SchemaKeys : present[k] /\ At(argv, 1).s \in DeclaredFlags(k)

(***************************************************************************)
(* C15                                                                     *)
(***************************************************************************)
\* the flag part f resolves to no key: no key declares it, and it is no
\* negation that the scanner honours
ResolvesToNoKey(f) ==
    /\ f \notin AllDeclaredFlags
    /\ \A k \in SchemaKeys : f \notin HonouredNegationsOf(k)

\* the positions scanned so far whose flag resolves to no key
UnknownPositions == {p \in FlagPositions : ResolvesToNoKey(FlagPartAt(p))}

\* [flag, index] of the UNKNOWN_FLAG issues, in the order of issues
RECURSIVE UnknownFlagsReported(_)
UnknownFlagsReported(iss) ==
    IF iss = <<>> THEN <<>>
    ELSE (IF Head(iss).code = "UNKNOWN_FLAG"
          THEN <<[flag |-> Head(iss).flag, index |-> Head(iss).index]>>
          ELSE <<>>) \o UnknownFlagsReported(Tail(iss))

\* [flag, index] of the positions P, in input order
RECURSIVE FlagPartsAt(_)
FlagPartsAt(P) ==
    IF P = {} THEN <<>>
    ELSE <<[flag |-> FlagPartAt(Min(P)), index |-> Min(P)]>> \o FlagPartsAt(P \ {Min(P)})

\* the loop is at a flag token that resolves to no key
AtUnknownFlag ==
    /\ pc = "scan"
    /\ isFlagToken(At(argv, i))
    /\ ~(stopAtDoubleDash /\ At(argv, i) = Str(DoubleDash))
    /\ ResolvesToNoKey(FlagPartAt(i))

\* C15: without allowUnknown, the UNKNOWN_FLAG errors are one per scanned flag
\* token that resolves to no key, naming its flag part and position, and unknown
\* is empty; with allowUnknown, unknown is those raw tokens in input order and
\* there is no UNKNOWN_FLAG issue.  The step that takes such a token changes no
\* value and no present entry, puts nothing in rest, and moves the cursor by one.
C15_UnknownFlag ==
    /\ [](InCall =>
            IF allowUnknown
            THEN /\ unknown = TokensAt(UnknownPositions)
                 /\ UnknownFlagsReported(issues) = <<>>
            ELSE /\ unknown = <<>>
                 /\ UnknownFlagsReported(issues) = FlagPartsAt(UnknownPositions))
    /\ [][AtUnknownFlag =>
            /\ UNCHANGED <<values, present, rest, heap>>
            /\ i' = i + 1
            /\ Len(issues') + Len(unknown') = Len(issues) + Len(unknown) + 1]_vars

\* a result whose unknown holds two tokens, one of them with its inline value,
\* next to a key that is present
C15_Witness ==
    /\ Returned
    /\ allowUnknown
    /\ Len(unknown) = 2
    /\ \E n \in 1..Len(unknown) : IndexOf(unknown[n].s, "=") > 0
    /\ \E k \in SchemaKeys : present[k]
    /\ "UNKNOWN_FLAG" \notin CodesOf(issues)

(***************************************************************************)
(* C16                                                                     *)
(***************************************************************************)
\* '--<x>' for the flag part '--no-<x>'
BaseOf(f) == DoubleDash \o SliceFrom(f, 5)

\* the keys that declare the base of f without declaring f itself
BaseKeysOf(f) == {k \in SchemaKeys : BaseOf(f) \in DeclaredFlags(k) /\ f \notin DeclaredFlags(k)}

\* f is a negation of key k: f is no declared flag, its base is a flag of k, k
\* is boolean and does not set allowNo to false
NegationOf(f, k) ==
    /\ f \notin AllDeclaredFlags
    /\ BaseOf(f) \in DeclaredFlags(k)
    /\ RawSpec(k).type = TBoolean
    /\ RawSpec(k).allowNo # Bool(FALSE)

\* the loop is at a flag token whose flag part starts with '--no-'
AtNoToken ==
    /\ pc = "scan"
    /\ isFlagToken(At(argv, i))
    /\ ~(stopAtDoubleDash /\ At(argv, i) = Str(DoubleDash))
    /\ StartsWith(FlagPartAt(i), NoPrefix)

\* iss2 is iss with one more issue, of the given code, key, flag and index
OneMoreIssue(iss, iss2, code, key, flag, index) ==
    /\ Len(iss2) = Len(iss) + 1
    /\ SubSeq(iss2, 1, Len(iss)) = iss
    /\ iss2[Len(iss2)].code = code
    /\ iss2[Len(iss2)].key = key
    /\ iss2[Len(iss2)].flag = flag
    /\ iss2[Len(iss2)].index = index

\* C16: the step that takes a token with the flag part '--no-<x>'.  When it is
\* a negation of a key, the key becomes present with the value false, a
\* DUPLICATE warning is added exactly when the key was present already, and the
\* cursor moves by one with nothing else changed.  When it is not, every key
\* that declares '--<x>' keeps its value and its present entry, and the token is
\* the flag '--no-<x>': its key becomes present when one declares it, and it is
\* an unknown flag otherwise.
C16_Negation ==
    [][AtNoToken =>
        LET f == FlagPartAt(i) IN
        IF \E k \in SchemaKeys : NegationOf(f, k)
        THEN LET k == CHOOSE k \in SchemaKeys : NegationOf(f, k) IN
             /\ present' = [present EXCEPT ![k] = TRUE]
             /\ values' = [values EXCEPT ![k] = Bool(FALSE)]
             /\ IF present[k]
                THEN OneMoreIssue(issues, issues', "DUPLICATE", k, BaseOf(f), i)
                ELSE issues' = issues
             /\ i' = i + 1
             /\ UNCHANGED <<rest, unknown, heap>>
        ELSE /\ \A k \in BaseKeysOf(f) : present'[k] = present[k] /\ values'[k] = values[k]
             /\ IF f \in AllDeclaredFlags
                THEN \E k \in SchemaKeys : f \in DeclaredFlags(k) /\ present'[k]
                ELSE /\ UNCHANGED <<values, present, rest, heap>>
                     /\ i' = i + 1
                     /\ Len(issues') + Len(unknown') = Len(issues) + Len(unknown) + 1]_vars

\* a result where a negation came after the flag it negates: the key is present
\* with the value false, and the DUPLICATE warning names the base flag
C16_Witness ==
    /\ Returned
    /\ \E k \in SchemaKeys :
        /\ present[k]
        /\ values[k] = Bool(FALSE)
        /\ \E p, q \in FlagPositions :
            /\ p < q
            /\ FlagPartAt(p) \in DeclaredFlags(k)
            /\ NegationOf(FlagPartAt(q), k)
            /\ \E n \in 1..Len(issues) :
                /\ issues[n].code = "DUPLICATE"
                /\ issues[n].index = q
                /\ issues[n].flag = BaseOf(FlagPartAt(q))

(***************************************************************************)
(* C17                                                                     *)
(***************************************************************************)
\* the positions where the scanner took a flag of key k, or a negation of it
SettingsOf(k) ==
    OccurrencesOf(k) \cup {p \in FlagPositions : FlagPartAt(p) \in HonouredNegationsOf(k)}

\* the positions of P after its first
AfterFirst(P) == IF P = {} THEN {} ELSE P \ {Min(P)}

\* the places in iss of the DUPLICATE issues of key k
DuplicatesOf(iss, k) == {n \in 1..Len(iss) : iss[n].code = "DUPLICATE" /\ iss[n].key = k}

\* the value the occurrence at position p carries for a key of the given type
CarriedValue(type, p) ==
    LET inlineValue == splitInlineValue(At(argv, p).s).value
        nextValue == At(argv, p + 1)
        raw == IF inlineValue # Undef THEN inlineValue ELSE nextValue
    IN IF type = TBoolean
       THEN IF inlineValue # Undef THEN normalizeBoolean(inlineValue)
            ELSE IF normalizeBoolean(nextValue) # Undef THEN normalizeBoolean(nextValue)
            ELSE Bool(TRUE)
       ELSE IF type = TNumber THEN ToNumber(raw.s)
       ELSE raw

\* the loop is at a declared flag of a key that is present already
AtRepeatedFlag ==
    /\ pc = "scan"
    /\ isFlagToken(At(argv, i))
    /\ ~(stopAtDoubleDash /\ At(argv, i) = Str(DoubleDash))
    /\ \E k \in SchemaKeys : FlagPartAt(i) \in DeclaredFlags(k) /\ present[k]

IsNotDuplicate(issue) == issue.code # "DUPLICATE"

\* C17: a non-array key has one DUPLICATE warning for each occurrence after
\* its first, at that occurrence's index, and an array key has none; ok is what
\* the other issues make it.  The step at a repeated flag of a non-array key
\* adds the warning first and an error after it at most; when it adds no
\* error, the key holds the value this occurrence carries.
C17_Duplicates ==
    /\ [](InCall => \A k \in SchemaKeys :
            LET dups == DuplicatesOf(issues, k) IN
            IF RawSpec(k).type = TArray
            THEN dups = {}
            ELSE /\ {issues[n].index : n \in dups} = AfterFirst(SettingsOf(k))
                 /\ Cardinality(dups) = Cardinality(AfterFirst(SettingsOf(k)))
                 /\ \A n \in dups : issues[n].severity = "warning")
    /\ [](Returned => ok = ComputeOk(SelectSeq(issues, IsNotDuplicate)))
    /\ [][AtRepeatedFlag =>
            LET k == CHOOSE k \in SchemaKeys : FlagPartAt(i) \in DeclaredFlags(k) IN
            IF RawSpec(k).type = TArray
            THEN DuplicatesOf(issues', k) = {}
            ELSE /\ OneMoreIssue(issues, SubSeq(issues', 1, Len(issues) + 1),
                                 "DUPLICATE", k, FlagPartAt(i), i)
                 /\ Len(issues') <= Len(issues) + 2
                 /\ Len(issues') = Len(issues) + 2 => issues'[Len(issues')].severity = "error"
                 /\ Len(issues') = Len(issues) + 1 =>
                        values'[k] = CarriedValue(RawSpec(k).type, i)]_vars

\* a result that is ok, where a non-array key was given twice with different
\* values: one DUPLICATE warning, and the key holds the later value
C17_Witness ==
    /\ Returned
    /\ ok
    /\ \E k \in SchemaKeys :
        /\ RawSpec(k).type # TArray
        /\ Cardinality(DuplicatesOf(issues, k)) = 1
        /\ \E p, q \in OccurrencesOf(k) :
            /\ p < q
            /\ FlagPartAt(p) \in DeclaredFlags(k)
            /\ FlagPartAt(q) \in DeclaredFlags(k)
            /\ CarriedValue(RawSpec(k).type, p) # CarriedValue(RawSpec(k).type, q)
            /\ values[k] = CarriedValue(RawSpec(k).type, q)

(***************************************************************************)
(* C18                                                                     *)
(***************************************************************************)
\* the place of key k in the schema's declaration order
KeyPosition(k) == CHOOSE p \in 1..Len(schema.entries) : schema.entries[p].key = k

\* the first flag the schema declares for key k
FirstDeclaredFlag(k) == SchemaHeap[RawSpec(k).flags.ref][1].s

\* the places in iss of the REQUIRED issues
RequiredPlaces(iss) == {n \in 1..Len(iss) : iss[n].code = "REQUIRED"}

\* C18: no REQUIRED issue exists before the scan is over.  In the result, a
\* key has one REQUIRED issue when it is required and not present, whatever its
\* default, and none otherwise; the issue is an error naming the key and its
\* first declared flag; the REQUIRED issues are the tail of the issue list, and
\* stand in declaration order of their keys.
C18_Required ==
    /\ pc \in {"scan", "required"} => RequiredPlaces(issues) = {}
    /\ Returned =>
        LET req == RequiredPlaces(issues) IN
        /\ \A k \in SchemaKeys :
            Cardinality({n \in req : issues[n].key = k})
                = IF RawSpec(k).required = Bool(TRUE) /\ ~present[k] THEN 1 ELSE 0
        /\ \A n \in req :
            /\ issues[n].severity = "error"
            /\ issues[n].key \in SchemaKeys
            /\ issues[n].flag = FirstDeclaredFlag(issues[n].key)
        /\ \A m, n \in 1..Len(issues) :
            m < n /\ m \in req =>
                /\ n \in req
                /\ KeyPosition(issues[m].key) < KeyPosition(issues[n].key)

\* a result with a scan-time issue and then two REQUIRED issues, one of them
\* for a key that has a default and whose first flag is not its only flag
C18_Witness ==
    /\ Returned
    /\ Cardinality(RequiredPlaces(issues)) = 2
    /\ 1 \notin RequiredPlaces(issues)
    /\ \E n \in RequiredPlaces(issues) :
        /\ RawSpec(issues[n].key).default # Undef
        /\ Cardinality(DeclaredFlags(issues[n].key)) > 1

(***************************************************************************)
(* C19                                                                     *)
(***************************************************************************)
\* true|1|yes|y|on, in lower case
WordsForTrue == { <<"t", "r", "u", "e">>, <<"1">>, <<"y", "e", "s">>, <<"y">>, <<"o", "n">> }

\* false|0|no|n|off, in lower case
WordsForFalse ==
    { <<"f", "a", "l", "s", "e">>, <<"0">>, <<"n", "o">>, <<"n">>, <<"o", "f", "f">> }

\* the token v is one of the ten boolean words, in any mix of cases
IsBooleanWord(v) ==
    /\ v # Undef
    /\ IsString(v)
    /\ ToLowerCase(v.s) \in WordsForTrue \cup WordsForFalse

\* the positions where the scanner took a flag of a boolean key that has no
\* inline value
BareBooleanPositions ==
    {p \in FlagPositions :
        /\ splitInlineValue(At(argv, p).s).value = Undef
        /\ \E k \in SchemaKeys : RawSpec(k).type = TBoolean /\ FlagPartAt(p) \in DeclaredFlags(k)}

\* the loop is at a flag of a boolean key that has no inline value
AtBareBoolean ==
    /\ pc = "scan"
    /\ isFlagToken(At(argv, i))
    /\ ~(stopAtDoubleDash /\ At(argv, i) = Str(DoubleDash))
    /\ splitInlineValue(At(argv, i).s).value = Undef
    /\ \E k \in SchemaKeys : RawSpec(k).type = TBoolean /\ FlagPartAt(i) \in DeclaredFlags(k)

InvalidInlineBooleanAt(p) ==
    /\ isFlagToken(At(argv, p))
    /\ ~(stopAtDoubleDash /\ At(argv, p) = Str(DoubleDash))
    /\ splitInlineValue(At(argv, p).s).value # Undef
    /\ ~IsBooleanWord(splitInlineValue(At(argv, p).s).value)
    /\ \E k \in SchemaKeys : RawSpec(k).type = TBoolean /\ FlagPartAt(p) \in DeclaredFlags(k)

\* C20: the step at a boolean flag whose inline value is no boolean word.  The
\* key becomes present and keeps the value it had; the last issue added is an
\* INVALID_VALUE error with the inline value as written, preceded by a
\* DUPLICATE warning exactly when the key was present; the cursor moves to the
\* next token.  Once the scan is over, the token after such a flag was scanned
\* in its own right, boolean word or not.
C20_InvalidInlineBoolean ==
    /\ [](ScanOver => \A p \in FlagPositions :
            InvalidInlineBooleanAt(p) /\ p + 1 < Len(argv) => p + 1 \in visited)
    /\ [][pc = "scan" /\ InvalidInlineBooleanAt(i) =>
            LET k == CHOOSE k \in SchemaKeys : FlagPartAt(i) \in DeclaredFlags(k)
                last == issues'[Len(issues')]
            IN /\ present'[k]
               /\ values'[k] = values[k]
               /\ Len(issues') = Len(issues) + (IF present[k] THEN 2 ELSE 1)
               /\ SubSeq(issues', 1, Len(issues)) = issues
               /\ last.code = "INVALID_VALUE"
               /\ last.severity = "error"
               /\ last.key = k
               /\ last.flag = FlagPartAt(i)
               /\ last.value = splitInlineValue(At(argv, i).s).value.s
               /\ last.index = i
               /\ i' = i + 1
               /\ UNCHANGED <<rest, unknown, heap>>]_vars

\* a result where a boolean word followed such a flag: the word is in rest,
\* the key is present, not true, and the INVALID_VALUE issue carries the value
C20_Witness ==
    /\ Returned
    /\ ~ok
    /\ \E p \in FlagPositions :
        /\ InvalidInlineBooleanAt(p)
        /\ Len(splitInlineValue(At(argv, p).s).value.s) > 0
        /\ IsBooleanWord(At(argv, p + 1))
        /\ rest = <<At(argv, p + 1)>>
        /\ \E k \in SchemaKeys :
            /\ FlagPartAt(p) \in DeclaredFlags(k)
            /\ present[k]
            /\ values[k] # Bool(TRUE)
            /\ \E n \in 1..Len(issues) :
                /\ issues[n].code = "INVALID_VALUE"
                /\ issues[n].index = p
                /\ issues[n].value = splitInlineValue(At(argv, p).s).value.s

(***************************************************************************)
(* C21                                                                     *)
(***************************************************************************)
\* the token v starts with '-' and has two characters at least
IsFlagShaped(v) == IsString(v) /\ Len(v.s) >= 2 /\ v.s[1] = "-"

\* position p holds a flag of a key of the given type
DeclaredOfTypeAt(type, p) ==
    /\ isFlagToken(At(argv, p))
    /\ ~(stopAtDoubleDash /\ At(argv, p) = Str(DoubleDash))
    /\ \E k \in SchemaKeys : RawSpec(k).type = type /\ FlagPartAt(p) \in DeclaredFlags(k)

\* the key that declares the flag at position p
KeyAt(p) == CHOOSE k \in SchemaKeys : FlagPartAt(p) \in DeclaredFlags(k)

\* the inline value of the token at position p, undefined when it has none
InlineAt(p) == splitInlineValue(At(argv, p).s).value

\* the last issue of iss2 is new, has the given code, and is an error about
\* the flag at position p
EndsInError(iss, iss2, code, p) ==
    /\ Len(iss2) > Len(iss)
    /\ iss2[Len(iss2)].code = code
    /\ iss2[Len(iss2)].severity = "error"
    /\ iss2[Len(iss2)].key = KeyAt(p)
    /\ iss2[Len(iss2)].flag = FlagPartAt(p)

\* no issue of iss2 after those of iss has the given code
AddsNo(iss, iss2, code) ==
    \A n \in (Len(iss) + 1)..Len(iss2) : iss2[n].code # code

\* C21: the step at a string flag.  Without an inline value, a next token
\* that is absent or flag-shaped gives a MISSING_VALUE error at the flag's
\* index, leaves the value and moves the cursor to that token; any other next
\* token is skipped by the cursor and, unless it is an empty string the key
\* does not allow, becomes the value.  With an inline value the cursor moves by
\* one and that value, under the same condition, becomes the value.  rest is
\* never touched.  Once the scan is over, the token after a string flag without
\* inline value was scanned in its own right exactly when it is flag-shaped.
C21_StringValue ==
    /\ [](ScanOver => \A p \in FlagPositions :
            DeclaredOfTypeAt(TString, p) /\ InlineAt(p) = Undef /\ p + 1 < Len(argv) =>
                (p + 1 \in visited <=> IsFlagShaped(At(argv, p + 1))))
    /\ [][pc = "scan" /\ DeclaredOfTypeAt(TString, i) =>
            LET k == KeyAt(i)
                nextToken == At(argv, i + 1)
                accepted(v) == Len(v.s) > 0 \/ RawSpec(k).allowEmpty = Bool(TRUE)
            IN /\ present'[k]
               /\ rest' = rest
               /\ unknown' = unknown
               /\ IF InlineAt(i) # Undef
                  THEN /\ i' = i + 1
                       /\ AddsNo(issues, issues', "MISSING_VALUE")
                       /\ accepted(InlineAt(i)) => values'[k] = InlineAt(i)
                  ELSE IF nextToken = Undef \/ IsFlagShaped(nextToken)
                  THEN /\ i' = i + 1
                       /\ EndsInError(issues, issues', "MISSING_VALUE", i)
                       /\ issues'[Len(issues')].index = i
                       /\ values'[k] = values[k]
                  ELSE /\ i' = i + 2
                       /\ AddsNo(issues, issues', "MISSING_VALUE")
                       /\ accepted(nextToken) => values'[k] = nextToken]_vars

\* a result where one string flag was followed by the numeric flag-shaped
\* token '-3', which was then scanned as a flag, and another took its inline
\* value
C21_Witness ==
    /\ Returned
    /\ \E p, q \in FlagPositions :
        /\ DeclaredOfTypeAt(TString, p)
        /\ InlineAt(p) = Undef
        /\ At(argv, p + 1) = Str(tMinus3)
        /\ p + 1 \in FlagPositions
        /\ \E n \in 1..Len(issues) : issues[n].code = "MISSING_VALUE" /\ issues[n].index = p
        /\ DeclaredOfTypeAt(TString, q)
        /\ q > p
        /\ InlineAt(q) # Undef
        /\ values[KeyAt(q)] = InlineAt(q)
        /\ rest = <<>>

(***************************************************************************)
(* C22                                                                     *)
(***************************************************************************)
\* the value source of the string flag at position p: its inline value, else
\* the token after it
StringSourceAt(p) == IF InlineAt(p) # Undef THEN InlineAt(p) ELSE At(argv, p + 1)

\* position p holds a string flag whose value source is the empty string
EmptyStringAt(p) == DeclaredOfTypeAt(TString, p) /\ StringSourceAt(p) = Str(<<>>)

\* C22: the step at a string flag whose value source is the empty string.
\* When the key does not set allowEmpty to true, the step ends in an
\* EMPTY_VALUE error and leaves the value; when it does, the step adds no
\* error and the value becomes the empty string.  A result with an EMPTY_VALUE
\* issue is not ok.
C22_EmptyString ==
    /\ [](Returned /\ "EMPTY_VALUE" \in CodesOf(issues) => ~ok)
    /\ [][pc = "scan" /\ EmptyStringAt(i) =>
            LET k == KeyAt(i) IN
            IF RawSpec(k).allowEmpty = Bool(TRUE)
            THEN /\ values'[k] = Str(<<>>)
                 /\ Len(issues') = Len(issues) + (IF present[k] THEN 1 ELSE 0)
                 /\ ComputeOk(issues') = ComputeOk(issues)
            ELSE /\ values'[k] = values[k]
                 /\ EndsInError(issues, issues', "EMPTY_VALUE", i)
                 /\ Len(issues') = Len(issues) + (IF present[k] THEN 2 ELSE 1)]_vars

\* a result, not ok, where one key was refused both an empty inline value and
\* an empty next token and has no value, and a key that allows it holds the
\* empty string
C22_Witness ==
    /\ Returned
    /\ ~ok
    /\ \E p, q \in FlagPositions :
        /\ EmptyStringAt(p)
        /\ EmptyStringAt(q)
        /\ RawSpec(KeyAt(p)).allowEmpty # Bool(TRUE)
        /\ values[KeyAt(p)] = Undef
        /\ \E n \in 1..Len(issues) : issues[n].code = "EMPTY_VALUE" /\ issues[n].key = KeyAt(p)
        /\ RawSpec(KeyAt(q)).allowEmpty = Bool(TRUE)
        /\ values[KeyAt(q)] = Str(<<>>)
        /\ \A n \in 1..Len(issues) : issues[n].key # KeyAt(q)

(***************************************************************************)
(* C23                                                                     *)
(***************************************************************************)
\* the token v is a decimal integer, with or without a sign in front
IsDecimalInteger(v) ==
    /\ IsString(v)
    /\ \/ IsDigits(v.s)
       \/ Len(v.s) > 1 /\ v.s[1] \in {"-", "+"} /\ IsDigits(Tail(v.s))

\* position p holds a number flag without inline value, followed by a number
NumberTakenAt(p) ==
    /\ DeclaredOfTypeAt(TNumber, p)
    /\ InlineAt(p) = Undef
    /\ p + 1 < Len(argv)
    /\ IsDecimalInteger(At(argv, p + 1))

\* C23: the step at a number flag without inline value whose next token is a
\* number, with a '-' in front or not: the key gets that number, the cursor
\* skips the token, no error and no MISSING_VALUE or UNKNOWN_FLAG issue is
\* added, and rest and unknown are as before.  Once the scan is over, the token
\* was never scanned in its own right.
C23_NegativeNumber ==
    /\ [](ScanOver => \A p \in FlagPositions : NumberTakenAt(p) => p + 1 \notin visited)
    /\ [][pc = "scan" /\ NumberTakenAt(i) =>
            LET k == KeyAt(i) IN
            /\ present'[k]
            /\ values'[k] = ToNumber(At(argv, i + 1).s)
            /\ values'[k].finite
            /\ i' = i + 2
            /\ Len(issues') = Len(issues) + (IF present[k] THEN 1 ELSE 0)
            /\ ComputeOk(issues') = ComputeOk(issues)
            /\ AddsNo(issues, issues', "MISSING_VALUE")
            /\ AddsNo(issues, issues', "UNKNOWN_FLAG")
            /\ UNCHANGED <<rest, unknown, heap>>]_vars

\* the result of [flag, '-3'] for a number flag, where '-3' is also a declared
\* flag of another key: ok, no issue, the value is -3 and the other key is not
\* present
C23_Witness ==
    /\ Returned
    /\ ok
    /\ issues = <<>>
    /\ Len(argv) = 2
    /\ NumberTakenAt(0)
    /\ At(argv, 1) = Str(tMinus3)
    /\ values[KeyAt(0)] = Num(0 - 3)
    /\ \E k \in SchemaKeys : tMinus3 \in DeclaredFlags(k) /\ ~present[k]

(***************************************************************************)
(* C24                                                                     *)
(***************************************************************************)
\* position p holds a number flag that has no value source: no inline value,
\* and the next token is absent or is flag-shaped without being a number
NumberMissingAt(p) ==
    /\ DeclaredOfTypeAt(TNumber, p)
    /\ InlineAt(p) = Undef
    /\ \/ p + 1 >= Len(argv)
       \/ IsFlagShaped(At(argv, p + 1)) /\ ~IsDecimalInteger(At(argv, p + 1))

\* position p holds a number flag whose value source is no number
NumberInvalidAt(p) ==
    /\ DeclaredOfTypeAt(TNumber, p)
    /\ ~NumberMissingAt(p)
    /\ ~IsDecimalInteger(IF InlineAt(p) # Undef THEN InlineAt(p) ELSE At(argv, p + 1))

\* C24: the step at a number flag.  Without a value source it ends in a
\* MISSING_VALUE error and the cursor moves by one; with a value source that
\* is no number it ends in an INVALID_VALUE error that carries the source as
\* written, and the cursor moves past the source.  In both cases the value is
\* left as it was and the issues are not ok any more.  A result with either
\* issue is not ok.
C24_NumberErrors ==
    /\ [](Returned /\ (\E n \in 1..Len(issues) :
                        /\ issues[n].code \in {"MISSING_VALUE", "INVALID_VALUE"}
                        /\ RawSpec(issues[n].key).type = TNumber)
            => ~ok)
    /\ [][pc = "scan" /\ DeclaredOfTypeAt(TNumber, i) =>
            LET k == KeyAt(i)
                source == IF InlineAt(i) # Undef THEN InlineAt(i) ELSE At(argv, i + 1)
            IN /\ NumberMissingAt(i) =>
                    /\ EndsInError(issues, issues', "MISSING_VALUE", i)
                    /\ Len(issues') = Len(issues) + (IF present[k] THEN 2 ELSE 1)
                    /\ i' = i + 1
                    /\ values'[k] = values[k]
                    /\ ~ComputeOk(issues')
               /\ NumberInvalidAt(i) =>
                    /\ EndsInError(issues, issues', "INVALID_VALUE", i)
                    /\ issues'[Len(issues')].value = source.s
                    /\ Len(issues') = Len(issues) + (IF present[k] THEN 2 ELSE 1)
                    /\ i' = IF InlineAt(i) # Undef THEN i + 1 ELSE i + 2
                    /\ values'[k] = values[k]
                    /\ ~ComputeOk(issues')
               /\ UNCHANGED <<rest, unknown, heap>>]_vars

\* a result, not ok, where a number flag had no value source, then had the
\* empty inline value: both issues are there and the key keeps its default
C24_Witness ==
    /\ Returned
    /\ ~ok
    /\ \E p, q \in FlagPositions :
        /\ NumberMissingAt(p)
        /\ NumberInvalidAt(q)
        /\ InlineAt(q) = Str(<<>>)
        /\ KeyAt(p) = KeyAt(q)
        /\ values[KeyAt(p)] = RawSpec(KeyAt(p)).default
        /\ \E m, n \in 1..Len(issues) :
            /\ issues[m].code = "MISSING_VALUE"
            /\ issues[m].index = p
            /\ issues[n].code = "INVALID_VALUE"
            /\ issues[n].value = <<>>

(***************************************************************************)
(* C25                                                                     *)
(***************************************************************************)
\* the position after the tokens the array flag at position p takes: the first
\* one after p that holds a flag-shaped token or, when stopAtDoubleDash is
\* enabled, '--'; the length of argv when there is none
ValuesEnd(p) ==
    Min({q \in (p + 1)..Len(argv) :
            \/ q = Len(argv)
            \/ IsFlagShaped(At(argv, q))
            \/ stopAtDoubleDash /\ At(argv, q) = Str(DoubleDash)})

\* what the array flag at position p collects: its inline value when that is
\* not empty, then the tokens up to ValuesEnd(p)
ValuesOf(p) ==
    (IF InlineAt(p) # Undef /\ Len(InlineAt(p).s) > 0 THEN <<InlineAt(p)>> ELSE <<>>)
        \o SubSeq(argv, p + 2, ValuesEnd(p))

\* C25: the step at an array flag moves the cursor to ValuesEnd and leaves rest
\* and unknown alone; when ValuesOf is not empty, the key's array is what it
\* was with ValuesOf appended.  Once the scan is over, none of the tokens taken
\* was scanned in its own right, and the token at ValuesEnd was.
C25_ArrayCollects ==
    /\ [](ScanOver => \A p \in FlagPositions :
            DeclaredOfTypeAt(TArray, p) =>
                /\ \A q \in (p + 1)..(ValuesEnd(p) - 1) : q \notin visited
                /\ ValuesEnd(p) < Len(argv) => ValuesEnd(p) \in visited)
    /\ [][pc = "scan" /\ DeclaredOfTypeAt(TArray, i) =>
            LET k == KeyAt(i) IN
            /\ present'[k]
            /\ i' = ValuesEnd(i)
            /\ pc' = IF i' < Len(argv) THEN "scan" ELSE "required"
            /\ rest' = rest
            /\ unknown' = unknown
            /\ ValuesOf(i) # <<>> =>
                /\ Elems(values'[k], heap') = Elems(values[k], heap) \o ValuesOf(i)
                /\ ComputeOk(issues') = ComputeOk(issues)]_vars

\* a result where an array flag with a non-empty inline value took the token
\* after it too and stopped at a flag, which was scanned next; rest is empty
C25_Witness ==
    /\ Returned
    /\ rest = <<>>
    /\ \E p \in FlagPositions :
        /\ DeclaredOfTypeAt(TArray, p)
        /\ Len(ValuesOf(p)) = 2
        /\ InlineAt(p) # Undef
        /\ ValuesEnd(p) \in FlagPositions
        /\ Elems(values[KeyAt(p)], heap) =
                Elems(RawSpec(KeyAt(p)).default, SchemaHeap) \o ValuesOf(p)

(***************************************************************************)
(* C26                                                                     *)
(***************************************************************************)
\* position p holds an array flag that collects nothing
ArrayEmptyAt(p) == DeclaredOfTypeAt(TArray, p) /\ ValuesOf(p) = <<>>

\* C26: the step at an array flag that collects nothing.  When the key does
\* not set allowEmpty to true, one MISSING_VALUE error is added and the value
\* and the arrays are as before.  When it does, no issue is added, the key is
\* present, and its value is an array with the elements the key had before,
\* none when it had no array.
C26_EmptyArray ==
    [][pc = "scan" /\ ArrayEmptyAt(i) =>
        LET k == KeyAt(i) IN
        IF RawSpec(k).allowEmpty = Bool(TRUE)
        THEN /\ issues' = issues
             /\ present'[k]
             /\ IsArray(values'[k])
             /\ Elems(values'[k], heap') = Elems(values[k], heap)
        ELSE /\ EndsInError(issues, issues', "MISSING_VALUE", i)
             /\ Len(issues') = Len(issues) + 1
             /\ values'[k] = values[k]
             /\ heap' = heap]_vars

\* a result that is ok and has no issue, where a key with a default that
\* allows an empty collection got an element and then an empty inline value:
\* its array is the default and that element
C26_Witness ==
    /\ Returned
    /\ ok
    /\ issues = <<>>
    /\ \E p, q \in FlagPositions :
        /\ p < q
        /\ ArrayEmptyAt(q)
        /\ InlineAt(q) = Str(<<>>)
        /\ DeclaredOfTypeAt(TArray, p)
        /\ KeyAt(p) = KeyAt(q)
        /\ Len(ValuesOf(p)) > 0
        /\ Len(Elems(RawSpec(KeyAt(q)).default, SchemaHeap)) > 0
        /\ present[KeyAt(q)]
        /\ Elems(values[KeyAt(q)], heap) =
                Elems(RawSpec(KeyAt(q)).default, SchemaHeap) \o ValuesOf(p)

(***************************************************************************)
(* C29                                                                     *)
(***************************************************************************)
\* the positions where the scanner met the terminating '--'
TerminatorPositions ==
    {p \in visited : stopAtDoubleDash /\ At(argv, p) = Str(DoubleDash)}

\* the positions after the terminating '--'
AfterTerminator ==
    IF TerminatorPositions = {} THEN {}
    ELSE (Min(TerminatorPositions) + 1)..(Len(argv) - 1)

\* the positions the scan has passed without scanning them: the tokens taken
\* as values
ConsumedPositions ==
    {p \in 0..(Len(argv) - 1) :
        /\ p \notin visited
        /\ p \notin AfterTerminator
        /\ pc = "scan" => p < i}

\* the positions whose tokens belong in rest
RestPositions == {p \in visited : ~IsFlagShaped(At(argv, p))} \cup AfterTerminator

\* C29: at every point of the scan, rest is the tokens at the scanned positions
\* that are not flag-shaped followed by the tokens after the terminating '--',
\* in input order; unknown holds tokens of scanned flag positions only; at most
\* one '--' terminates; a position whose token was taken as a value is neither a
\* position of rest nor of unknown, and there are as many tokens in rest and
\* unknown as there are such positions.
C29_RestContent ==
    (InCall /\ ~mutated) =>
        /\ rest = TokensAt(RestPositions)
        /\ Cardinality(TerminatorPositions) <= 1
        /\ \A p \in visited : p \notin AfterTerminator
        /\ \A p \in RestPositions :
            p \in AfterTerminator \/ ~(At(argv, p).s # <<>> /\ At(argv, p).s[1] = "-"
                                        /\ Len(At(argv, p).s) # 1)
        /\ unknown = IF allowUnknown THEN TokensAt(UnknownPositions) ELSE <<>>
        /\ ConsumedPositions \cap (RestPositions \cup UnknownPositions) = {}
        /\ Len(rest) = Cardinality(RestPositions)

\* a result without a terminating '--' where a token was taken as a value and
\* the same text, scanned later, is all of rest
C29_Witness ==
    /\ Returned
    /\ TerminatorPositions = {}
    /\ \E p \in ConsumedPositions, q \in visited :
        /\ p < q
        /\ At(argv, p) = At(argv, q)
        /\ rest = <<At(argv, q)>>

(***************************************************************************)
(* C30                                                                     *)
(***************************************************************************)
CoercionCodes == {"MISSING_VALUE", "EMPTY_VALUE", "INVALID_VALUE"}

\* the places in iss of the issues that carry an index
IndexedPlaces(iss) == {n \in 1..Len(iss) : "index" \in DOMAIN iss[n]}

\* C30: a step of the scan that ends in a MISSING_VALUE, EMPTY_VALUE or
\* INVALID_VALUE issue leaves every value and every array as it was, and the
\* key the issue names is present after it.  At every point, every issue but
\* the REQUIRED ones carries an index, the indexes are positions of argv, and
\* they do not decrease along the issue list.
C30_FailedOccurrence ==
    /\ [](InCall =>
            /\ \A n \in 1..Len(issues) :
                    n \in IndexedPlaces(issues) <=> issues[n].code # "REQUIRED"
            /\ \A n \in IndexedPlaces(issues) :
                    issues[n].index >= 0 /\ issues[n].index < Len(argv)
            /\ \A m, n \in IndexedPlaces(issues) :
                    m < n => issues[m].index <= issues[n].index)
    /\ [][(/\ pc = "scan"
           /\ Len(issues') > Len(issues)
           /\ issues'[Len(issues')].code \in CoercionCodes) =>
            /\ values' = values
            /\ heap' = heap
            /\ present'[issues'[Len(issues')].key]
            /\ DeclaredOfTypeAt(RawSpec(issues'[Len(issues')].key).type, i)
            /\ KeyAt(i) = issues'[Len(issues')].key]_vars

\* a result where a key got a value from one occurrence, and a later
\* occurrence failed: the key is present and holds the earlier value, which is
\* not its default, and the failure is the last issue, at the last position
C30_Witness ==
    /\ Returned
    /\ issues # <<>>
    /\ LET last == issues[Len(issues)] IN
        /\ last.code \in CoercionCodes
        /\ last.index = Len(argv) - 1
        /\ present[last.key]
        /\ values[last.key] \notin {Undef, RawSpec(last.key).default}
        /\ Len(issues) = 2
        /\ issues[1].code = "DUPLICATE"
        /\ issues[1].index = last.index

(***************************************************************************)
(* C28                                                                     *)
(***************************************************************************)
\* globalThis.Deno of the runtime; only read for a runtime that has one
DenoOf(n) == Scenarios[n].Deno

\* the program arguments of the runtime: process.argv without its first two
\* entries where there is a process object, Deno.args elsewhere
RuntimeArguments ==
    IF ProcessOf(scn) # Undef THEN SubSeq(ProcessOf(scn).argv, 3, Len(ProcessOf(scn).argv))
    ELSE DenoOf(scn).args

\* C28: a call with a valid schema does not throw, and the tokens it parses
\* are the elements of options.argv when that is given, and the program
\* arguments of the runtime when it is not.
C28_DefaultArgv ==
    (pc # "idle" /\ ValidSchema) =>
        /\ pc # "thrown"
        /\ argv = IF options.argv # Undef THEN argvAtCall ELSE RuntimeArguments

(***************************************************************************)
(* C27                                                                     *)
(***************************************************************************)
\* the elements of an array of the projection, given those of the result's
\* array: the same, with what the caller pushed onto the projection's after them
ProjectedElems(elems) == IF json.pushed THEN Append(elems, Str(tMutated)) ELSE elems

\* C27: while the caller holds the projection of a result, its values have the
\* keys of the result's, null where the result has undefined and the result's
\* value elsewhere; its present and ok are the result's; its rest, unknown and
\* issues hold the elements of the result's, followed by what the caller pushed
\* onto them, while the result's own rest, unknown and issues are still what
\* parseArgs returned.  The steps that make and change the projection leave
\* the result and the arrays of its values as they were.
C27_JsonProjection ==
    /\ [](json # NoJson =>
            /\ pc = "returned"
            /\ DOMAIN json.out.values = DOMAIN values
            /\ \A k \in DOMAIN values :
                /\ values[k] = Undef => json.out.values[k] = Null
                /\ values[k] # Undef => json.out.values[k] = values[k]
            /\ json.out.present = present
            /\ json.out.ok = ok
            /\ json.out.rest.elems = ProjectedElems(rest)
            /\ json.out.unknown.elems = ProjectedElems(unknown)
            /\ json.out.issues.elems = ProjectedElems(issues)
            /\ rest = first.rest
            /\ unknown = first.unknown
            /\ issues = first.issues)
    /\ [][pc = "returned" /\ pc' = "returned" /\ json' # json =>
            UNCHANGED <<values, present, rest, unknown, issues, ok, heap>>]_vars

\* the caller has pushed onto the projection of a result that has an undefined
\* value and a defined one, and tokens or issues in rest, unknown and issues
C27_Witness ==
    /\ json # NoJson
    /\ json.pushed
    /\ \E k \in DOMAIN values : values[k] = Undef /\ json.out.values[k] = Null
    /\ \E k \in DOMAIN values : values[k] # Undef
    /\ rest # <<>>
    /\ unknown # <<>>
    /\ issues # <<>>
    /\ Len(json.out.rest.elems) = Len(rest) + 1

====
